---- MODULE Spec2Model ----
(***************************************************************************)
(* polyrev: the review orchestrator (runner/orchestrator.rs), the per-unit *)
(* executor (runner/executor.rs), the retry executor (runner/retry.rs),    *)
(* the run state tracker (state.rs) and the run command (cli/run.rs); the  *)
(* plan command (cli/plan.rs), the perspective orchestrator                *)
(* (planner/orchestrator.rs) and the reducer (planner/reducer.rs).         *)
(***************************************************************************)
EXTENDS Integers, Sequences, FiniteSets, TLC

\* ------------------------------------------------------------------ bounds
MaxConcurrency == 2
MaxAttempts == 2
MaxFiles == 3
MaxElapsed == 1
MaxRetryAttempts == 3
MaxSucceedAt == 4
MaxTimeout == 2
MaxChunkInput == 7
MaxChunkSize == 8
MaxTableRows == 3

\* -------------------------------------------------------- program constants
FRESH_HOURS == 24

\* ------------------------------------------------------------- the config
Reviewers == {"r1", "r2", "r3"}
ReviewerOrder == <<"r1", "r2", "r3">>
ProviderOf == [r \in Reviewers |-> IF r = "r2" THEN "codex_cli" ELSE "claude_cli"]
ScopesOf == [r \in Reviewers |-> IF r = "r3" THEN {"docs"} ELSE {"backend"}]

None == <<>>
Some(x) == <<x>>
Unwrap(o) == o[1]
Ok(v) == [ok |-> TRUE, value |-> v]
Err(e) == [ok |-> FALSE, value |-> e]

Priorities == {"p0", "p1", "p2"}
ProviderErrors == {"Timeout", "Io", "NonZeroExit"}

\* ---------------------------------------------------------------- helpers
RECURSIVE SeqFilter(_, _)
SeqFilter(s, keep) ==
    IF s = <<>> THEN <<>>
    ELSE IF Head(s) \in keep THEN <<Head(s)>> \o SeqFilter(Tail(s), keep)
    ELSE SeqFilter(Tail(s), keep)

RECURSIVE SeqConcat(_)
SeqConcat(ss) == IF ss = <<>> THEN <<>> ELSE Head(ss) \o SeqConcat(Tail(ss))

Range(s) == {s[i] : i \in 1..Len(s)}

CountWhere(s, p) == Cardinality({i \in 1..Len(s) : s[i] = p})

\* error.rs: the Display text of a ProviderError; e.to_string() drops the kind
\* and keeps the text.
ProviderErrorText(e) ==
    CASE e = "Timeout" -> <<"Execution timed out after">>
      [] e = "Io" -> <<"IO error">>
      [] e = "NonZeroExit" -> <<"Process failed with exit code">>

DiscoveryErrorText == <<"Failed to walk directory">>
PromptErrorText == <<"Failed to read prompt file">>
AllChunksFailedText == <<"all chunks failed">>
ChunkCountText(k, n) == <<"chunks failed; partial results returned", k, n>>

Completed == [kind |-> "Completed", detail |-> None]
Skipped(reason) == [kind |-> "Skipped", detail |-> <<reason>>]
Failed(error) == [kind |-> "Failed", detail |-> error]
\* orchestrator.rs 78: declared, never constructed.
TimedOut == [kind |-> "TimedOut", detail |-> None]

\* discovery/files.rs: chunk_files
RECURSIVE SliceChunks(_, _)
SliceChunks(files, max_size) ==
    IF files = <<>> THEN <<>>
    ELSE IF Len(files) <= max_size THEN <<files>>
    ELSE <<SubSeq(files, 1, max_size)>>
         \o SliceChunks(SubSeq(files, max_size + 1, Len(files)), max_size)

chunk_files_Whole(files, max_size) == <<files>>

chunk_files(files, max_size) ==
    IF max_size = 0 \/ Len(files) <= max_size THEN <<files>>
    ELSE SliceChunks(files, max_size)

\* parser/mod.rs: parse_findings over a provider output that is described by
\* what each stage recovers from it: json is None or Some(findings), table is
\* the list of matching data rows.
parse_findings_Fallback(stdout) ==
    IF stdout.json # None THEN Unwrap(stdout.json)
    ELSE IF stdout.table # <<>> THEN stdout.table
    ELSE <<"p1">>

parse_findings(stdout) ==
    IF stdout.json # None THEN Unwrap(stdout.json)
    ELSE IF stdout.table # <<>> THEN stdout.table
    ELSE <<>>

Stdouts ==
    { [json |-> None, table |-> <<>>],
      [json |-> Some(<<>>), table |-> <<>>],
      [json |-> Some(<<"p0", "p1">>), table |-> <<>>],
      [json |-> None, table |-> <<"p2">>] }

\* ------------------------------------------------------- state.rs: State
\* The map reviewer_id -> None | Some([last_run, findings_count]).
ran_today_Inclusive(st, reviewer_id, now) ==
    /\ st[reviewer_id] # None
    /\ now - Unwrap(st[reviewer_id]).last_run <= FRESH_HOURS

ran_today(st, reviewer_id, now) ==
    /\ st[reviewer_id] # None
    /\ now - Unwrap(st[reviewer_id]).last_run < FRESH_HOURS

record_run(st, reviewer_id, findings_count, now) ==
    [st EXCEPT ![reviewer_id] =
        Some([last_run |-> now, findings_count |-> findings_count])]

\* ------------------------------------------- runner/retry.rs: the decisions
\* u64::MAX, scaled to the width the model counts in.
WordMax == 15

saturating_mul2(b) == IF 2 * b > WordMax THEN WordMax ELSE 2 * b

RetryExhausted(attempts, max_attempts) == attempts >= max_attempts

\* rand::random::<u64>() % backoff_base_ms: the values it can take; a zero
\* divisor panics, which is the empty set here.
JitterValues(backoff_base_ms) ==
    IF backoff_base_ms = 0 THEN {} ELSE 0..(backoff_base_ms - 1)

\* Duration::from_millis(backoff_ms + jitter): a u64 sum that overflows panics
\* in a build with overflow checks and wraps in one without.
DelayOutcomes(backoff_ms, jitter) ==
    IF backoff_ms + jitter <= WordMax
    THEN {[panic |-> FALSE, delay |-> backoff_ms + jitter]}
    ELSE {[panic |-> TRUE, delay |-> 0],
          [panic |-> FALSE, delay |-> (backoff_ms + jitter) % (WordMax + 1)]}

\* What the loop body does with the outcome of one invocation.
RetryStep(rcfg, attempts, ok) ==
    IF ok THEN "return_ok"
    ELSE IF RetryExhausted(attempts, rcfg.max_attempts) THEN "return_err"
    ELSE IF JitterValues(rcfg.backoff_base_ms) = {} THEN "panic"
    ELSE "sleep"

\* ---------------------------------------- runner/executor.rs: the decisions
InitialSessionId(r, total_chunks) ==
    IF ProviderOf[r] = "claude_cli" /\ total_chunks > 1
    THEN Some(<<"uuid", r>>) ELSE None

SessionInfoFor_NeverResume(session_id, chunk_idx) ==
    IF session_id = None THEN None
    ELSE Some([session_id |-> session_id, is_resume |-> FALSE])

SessionInfoFor(session_id, chunk_idx) ==
    IF session_id = None THEN None
    ELSE Some([session_id |-> session_id, is_resume |-> chunk_idx > 0])

\* The session id kept after a successful chunk whose output carries
\* output_session_id.
AdoptSessionId_Never(session_id, output_session_id) == session_id

AdoptSessionId(session_id, output_session_id) ==
    IF session_id = None /\ output_session_id # None
    THEN output_session_id ELSE session_id

\* The chunks whose provider call is started when the loop reaches chunk_idx:
\* the loop awaits each chunk's retry_with_backoff before it goes on.
ChunksStartedAt_AllRemaining(chunk_idx, total_chunks) ==
    chunk_idx..(total_chunks - 1)

ChunksStartedAt(chunk_idx, total_chunks) == {chunk_idx}

AbortsChain_Never(total_chunks, chunk_idx) == FALSE

AbortsChain(total_chunks, chunk_idx) ==
    total_chunks > 1 /\ chunk_idx < total_chunks - 1

IsFinalChunk_Any(total_chunks, chunk_idx) == TRUE

IsFinalChunk(total_chunks, chunk_idx) == chunk_idx + 1 = total_chunks

StatusOf_TimedOut(chunk_successes, chunk_failures, last_error) ==
    IF last_error = Some(ProviderErrorText("Timeout")) THEN TimedOut
    ELSE IF chunk_successes = 0
    THEN Failed(IF last_error = None THEN AllChunksFailedText
                ELSE Unwrap(last_error))
    ELSE IF chunk_failures > 0
    THEN Failed(ChunkCountText(chunk_failures,
                               chunk_failures + chunk_successes))
    ELSE Completed

StatusOf_SkippedWhenNoSuccess(chunk_successes, chunk_failures, last_error) ==
    IF chunk_successes = 0 THEN Skipped("no output")
    ELSE IF chunk_failures > 0
    THEN Failed(ChunkCountText(chunk_failures,
                               chunk_failures + chunk_successes))
    ELSE Completed

StatusOf(chunk_successes, chunk_failures, last_error) ==
    IF chunk_successes = 0
    THEN Failed(IF last_error = None THEN AllChunksFailedText
                ELSE Unwrap(last_error))
    ELSE IF chunk_failures > 0
    THEN Failed(ChunkCountText(chunk_failures,
                               chunk_failures + chunk_successes))
    ELSE Completed

ReviewerResult(r, status, files_scanned, findings) ==
    [reviewer_id |-> r, status |-> status,
     files_scanned |-> files_scanned, findings |-> findings]

\* ------------------------------------ runner/orchestrator.rs: the decisions
\* orchestrator.rs 185: the pacing sleep before the launch of the idx-th unit.
NeedsLaunchDelay_First(idx, launch_delay_ms) == launch_delay_ms > 0

NeedsLaunchDelay(idx, launch_delay_ms) == idx > 0 /\ launch_delay_ms > 0

PermitPool_OneMore(concurrency) == concurrency + 1

PermitPool(concurrency) == concurrency

MatchesFilters_NoScope(c, o, r) ==
    /\ c.enabled[r]
    /\ (o.reviewer_filter = None \/ r \in Unwrap(o.reviewer_filter))

MatchesFilters(c, o, r) ==
    /\ c.enabled[r]
    /\ (o.reviewer_filter = None \/ r \in Unwrap(o.reviewer_filter))
    /\ (o.scope_filter = None
        \/ ScopesOf[r] \cap Unwrap(o.scope_filter) # {})

all_reviewers(c, o) ==
    SeqFilter(ReviewerOrder, {r \in Reviewers : MatchesFilters(c, o, r)})

SkipsAsRecent(o, st, r, now) == ~o.force /\ ran_today(st, r, now)

AlreadyRanResult(r) ==
    ReviewerResult(r, Skipped("already ran today"), 0, <<>>)

totals(results) ==
    LET all == [p \in Priorities |->
                  LET RECURSIVE Sum(_)
                      Sum(i) == IF i = 0 THEN 0
                                ELSE Sum(i - 1)
                                     + CountWhere(results[i].findings, p)
                  IN Sum(Len(results))]
    IN [p0 |-> all["p0"], p1 |-> all["p1"], p2 |-> all["p2"]]

\* cli/run.rs: only a Completed result is recorded in the run state.
RecordsResult_Any(result) == TRUE

RecordsResult(result) == result.status.kind = "Completed"

\* ------------------------------------------- parser/json.rs: try_parse_json
\* A raw string is described by whether the whole of it is a JSON document
\* and by the JSON object extract_json finds in it, None when it finds none;
\* the object by its result member, None unless it is a string, and by its
\* findings member, None unless it deserializes as a list of findings.
RawJson(whole, json) == [whole |-> whole, json |-> json]
JsonObject(result, findings) == [result |-> result, findings |-> findings]

\* serde_json::from_str::<ClaudeOutput>(raw)
AsClaudeOutput(raw) ==
    IF raw.whole /\ raw.json # None THEN Unwrap(raw.json).result ELSE None

parse_findings_json(s) ==
    IF s.json = None THEN None ELSE Unwrap(s.json).findings

try_parse_json_DirectOnly(raw) == parse_findings_json(raw)

try_parse_json(raw) ==
    IF AsClaudeOutput(raw) # None
       /\ parse_findings_json(Unwrap(AsClaudeOutput(raw))) # None
    THEN parse_findings_json(Unwrap(AsClaudeOutput(raw)))
    ELSE parse_findings_json(raw)

\* ------------------------- parser/markdown.rs: try_parse_markdown_table
\* A table line is described by its file cell, by the number its line cell
\* spells, None unless the cell is digits, and by its severity cell.
TableRow(file, line, severity) ==
    [file |-> file, line |-> line, severity |-> severity]

Severities == {"p0", "p1", "p2", "high", "medium", "low", "critical"}

\* str::to_lowercase and str::to_uppercase on the strings in use.
to_lowercase(str) ==
    CASE str \in {"File", "FILE"} -> "file"
      [] str = "HIGH" -> "high"
      [] OTHER -> str

to_uppercase(str) ==
    CASE str \in {"sec", "Sec"} -> "SEC"
      [] OTHER -> str

\* table_re matches the line: the line cell is \d+ and the severity cell is
\* one of the alternatives, in lower case.
MatchesTableRe(row) == row.line # None /\ row.severity \in Severities

\* str::parse::<u32>, for a word of WordMax.
ParseU32(n) == IF n <= WordMax THEN Some(n) ELSE None

SeverityPriority(severity_str, default_priority) ==
    CASE severity_str \in {"p0", "critical", "high"} -> "p0"
      [] severity_str \in {"p1", "medium"} -> "p1"
      [] severity_str \in {"p2", "low"} -> "p2"
      [] OTHER -> default_priority

TableFinding(id, priority, file, line) ==
    [id |-> id, priority |-> priority, file |-> file, line |-> line]

\* The loop over the captures: None once a line cell does not parse.
RECURSIVE TableRows(_, _, _, _)
TableRows(rows, reviewer_id, default_priority, findings) ==
    IF rows = <<>> THEN Some(findings)
    ELSE LET row == Head(rows)
             rest == Tail(rows)
         IN IF ~MatchesTableRe(row)
            THEN TableRows(rest, reviewer_id, default_priority, findings)
            ELSE IF ParseU32(Unwrap(row.line)) = None THEN None
            ELSE IF to_lowercase(row.file) = "file"
            THEN TableRows(rest, reviewer_id, default_priority, findings)
            ELSE TableRows(rest, reviewer_id, default_priority,
                           Append(findings,
                                  TableFinding(<<to_uppercase(reviewer_id),
                                                 Len(findings) + 1>>,
                                               SeverityPriority(
                                                 to_lowercase(row.severity),
                                                 default_priority),
                                               row.file,
                                               Unwrap(ParseU32(Unwrap(row.line))))))

try_parse_markdown_table(raw, reviewer_id, default_priority) ==
    LET findings == TableRows(raw, reviewer_id, default_priority, <<>>)
    IN IF findings = None \/ findings = Some(<<>>) THEN None ELSE findings

\* ---------------------------------------- parser/finding.rs: fingerprint
\* A string is the sequence of its characters.
Whitespace == {" ", "\n", "\t"}

RECURSIVE TakeWord(_)
TakeWord(s) ==
    IF s = <<>> \/ Head(s) \in Whitespace THEN <<>>
    ELSE <<Head(s)>> \o TakeWord(Tail(s))

RECURSIVE split_whitespace(_)
split_whitespace(s) ==
    IF s = <<>> THEN <<>>
    ELSE IF Head(s) \in Whitespace THEN split_whitespace(Tail(s))
    ELSE LET word == TakeWord(s)
         IN <<word>> \o split_whitespace(SubSeq(s, Len(word) + 1, Len(s)))

RECURSIVE Join(_, _)
Join(parts, sep) ==
    IF parts = <<>> THEN <<>>
    ELSE IF Len(parts) = 1 THEN Head(parts)
    ELSE Head(parts) \o sep \o Join(Tail(parts), sep)

Digits == <<"0", "1", "2", "3", "4", "5", "6", "7", "8", "9">>

RECURSIVE Decimal(_)
Decimal(n) ==
    IF n < 10 THEN <<Digits[n + 1]>>
    ELSE Decimal(n \div 10) \o <<Digits[(n % 10) + 1]>>

Finding(file, line, finding_type, snippet, title) ==
    [file |-> file, line |-> line, finding_type |-> finding_type,
     snippet |-> snippet, title |-> title]

normalize_snippet_Raw(finding) ==
    IF finding.snippet = None THEN <<>> ELSE Unwrap(finding.snippet)

normalize_snippet(finding) ==
    Join(split_whitespace(IF finding.snippet = None THEN <<>>
                          ELSE Unwrap(finding.snippet)), <<" ">>)

\* The first 12 hex digits of the SHA-256 digest, taken as free of
\* collisions: equal for equal inputs and different for different ones.
Sha256Hex12(input) == <<"sha256", input>>

FingerprintInput(finding, reviewer_id) ==
    Join(<<reviewer_id, finding.file, Decimal(finding.line),
           finding.finding_type, normalize_snippet(finding)>>, <<"|">>)

fingerprint(finding, reviewer_id) ==
    Sha256Hex12(FingerprintInput(finding, reviewer_id))

\* ------------------------------------------ planner/reducer.rs: the decisions
MAX_REVISION_RETRIES == 2

\* A string is kept as the pair of its "impl-" prefix, if it has one, and
\* the rest; format!("impl-{:03}", n) is the pair of the prefix and n.
ImplId(n) == <<"impl-", n>>
Text(x) == <<"", x>>
StartsWithImpl(s) == s[1] = "impl-"

UnifiedTask(id, title, description, depends_on) ==
    [id |-> id, title |-> title, description |-> description,
     depends_on |-> depends_on]

UnifiedPlan(tasks, questions, summary) ==
    [tasks |-> tasks, questions |-> questions, summary |-> summary]

RevisedTask(title, description, depends_on) ==
    [title |-> title, description |-> description, depends_on |-> depends_on]

RevisionOutput(tasks, revision_summary) ==
    [tasks |-> tasks, revision_summary |-> revision_summary]

\* original.tasks.iter().find(|ot| ot.title == t.title)
RECURSIVE FindByTitle(_, _)
FindByTitle(tasks, title) ==
    IF tasks = <<>> THEN None
    ELSE IF Head(tasks).title = title THEN Some(Head(tasks))
    ELSE FindByTitle(Tail(tasks), title)

\* The id of the revised task at the 0-based position i.
RevisedId_ByPosition(original, t, i) == ImplId(i + 1)

RevisedId(original, t, i) ==
    LET original_task == FindByTitle(original.tasks, t.title)
    IN IF original_task # None THEN Unwrap(original_task).id
       ELSE ImplId(i + 1)

\* title_to_id after the first pass: a later insert of a title replaces the
\* earlier one.
TitleToId(original, tasks) ==
    [title \in {tasks[i].title : i \in 1..Len(tasks)} |->
       LET last == CHOOSE i \in 1..Len(tasks) :
                     /\ tasks[i].title = title
                     /\ \A j \in (i + 1)..Len(tasks) : tasks[j].title # title
       IN RevisedId(original, tasks[last], last - 1)]

ResolveDep(title_to_id, dep) ==
    IF StartsWithImpl(dep) THEN dep
    ELSE IF dep \in DOMAIN title_to_id THEN title_to_id[dep]
    ELSE dep

NoTasksText == <<"Revision produced no tasks">>
RevisionYamlText == <<"Failed to parse revision YAML">>

\* raw is the revision the output's YAML deserializes to, None when it has
\* no YAML that does.
parse_revision_yaml(raw, original) ==
    IF raw = None THEN Err(RevisionYamlText)
    ELSE LET revision == Unwrap(raw)
             title_to_id == TitleToId(original, revision.tasks)
         IN IF revision.tasks = <<>> THEN Err(NoTasksText)
            ELSE Ok(UnifiedPlan(
                   [i \in 1..Len(revision.tasks) |->
                      LET t == revision.tasks[i]
                      IN UnifiedTask(RevisedId(original, t, i - 1), t.title,
                                     t.description,
                                     [k \in 1..Len(t.depends_on) |->
                                        ResolveDep(title_to_id, t.depends_on[k])])],
                   original.questions,
                   IF revision.revision_summary # None
                   THEN revision.revision_summary ELSE original.summary))

\* planner/parser.rs, planner/reducer.rs: what the parsers make of a stdout.
\* A perspective's stdout is the task titles of the fragment it holds, None
\* when no fragment can be read from it.
FragmentText(perspective_id) ==
    <<"Could not parse plan fragment from perspective", perspective_id>>

parse_plan_fragment(raw, perspective_id) ==
    IF raw = None THEN Err(FragmentText(perspective_id))
    ELSE Ok([perspective |-> perspective_id, tasks |-> Unwrap(raw)])

\* The reducer's stdout is the JSON value it holds, None when it holds none;
\* the value's tasks are None when the key is missing or does not
\* deserialize, and the flexible parse then takes the default.
UnifiedPlanText == <<"Could not parse unified plan from reducer output">>

try_parse_plan(s) ==
    IF s = None THEN None
    ELSE LET value == Unwrap(s)
         IN Some(UnifiedPlan(IF value.tasks # None THEN Unwrap(value.tasks)
                             ELSE <<>>,
                             value.questions, value.summary))

parse_unified_plan(raw) ==
    IF try_parse_plan(raw) # None THEN Ok(Unwrap(try_parse_plan(raw)))
    ELSE Err(UnifiedPlanText)

\* planner/orchestrator.rs: the prompts compiled into the binary.
Perspectives == {"architecture", "custom", "generalist"}
PerspectiveOrder == <<"architecture", "custom", "generalist">>
EmbeddedPrompts == {"architecture", "generalist"}

get_embedded_prompt(perspective_id) ==
    IF perspective_id \in EmbeddedPrompts THEN Some(perspective_id) ELSE None

MatchesPerspectiveFilter(enabled, perspective_filter, p) ==
    /\ enabled[p]
    /\ (perspective_filter = None \/ p \in Unwrap(perspective_filter))

PerspectiveResult(id, status, fragment) ==
    [perspective_id |-> id, status |-> status, fragment |-> fragment]

\* reduce_plan: the fragments handed to the reducer.
ReducerInput_All(fragments) ==
    [i \in 1..Len(fragments) |->
       IF fragments[i].fragment # None THEN Unwrap(fragments[i].fragment)
       ELSE [perspective |-> fragments[i].perspective_id, tasks |-> <<>>]]

ReducerInput(fragments) ==
    LET kept == SeqFilter(fragments,
                          {r \in Range(fragments) :
                             r.status = Completed /\ r.fragment # None})
    IN [i \in 1..Len(kept) |-> Unwrap(kept[i].fragment)]

\* ------------------------------------------------------------------ state
VARIABLES
    cfg,        \* Config: concurrency, retry, max_files, enabled
    options,    \* RunOptions: force, reviewer_filter, scope_filter
    world,      \* what discovery and the prompt read find, per reviewer
    state,      \* the in-memory run state (State.reviewers)
    disk,       \* the persisted run state (.polyrev/state.json)
    clock,      \* Utc::now(), in hours
    orch,       \* Orchestrator::run and cli::run::execute: their position and locals
    permits,    \* the semaphore's available permits
    task,       \* one spawned execute_reviewer task per reviewer
    rt,         \* one retry_with_backoff call on a scripted operation
    pl,         \* one plan command: PlanOrchestrator::run, reduce_plan, revise_plan
    rn,         \* one Runner.execute call and the process it spawns
    fn,         \* one application of a pure function to an input
    pp          \* one run_postprocess call

vars == <<cfg, options, world, state, disk, clock, orch, permits, task, rt, pl, rn, fn, pp>>
orchVars ==
    <<cfg, options, world, state, disk, clock, orch, permits, task, pl, rn, fn, pp>>

StartClock == 100

IdleTask ==
    [pc |-> "idle", chunks |-> <<>>, chunk_idx |-> 0, inflight |-> {},
     attempts |-> 0, backoff_ms |-> 0, delay |-> 0,
     chunk_successes |-> 0, chunk_failures |-> 0, last_error |-> None,
     session_id |-> None, session_info |-> None, all_findings |-> <<>>,
     result |-> None,
     \* history: a non-final chunk failed after its retries; a provider call
     \* was made; no provider call returned anything but a timeout; the
     \* session id of the last successful output; the stdout of the final
     \* chunk's successful output
     chain_broken |-> FALSE, called |-> FALSE, only_timeouts |-> TRUE,
     output_session_id |-> None, output_stdout |-> None]

IdleOrch ==
    [pc |-> "init", reviewers |-> <<>>, matched |-> <<>>, idx |-> 0,
     futures |-> {}, results |-> <<>>, loaded |-> <<>>,
     \* slept: the pacing sleep before the next launch is over; delays is
     \* history, the number of pacing sleeps of the run
     slept |-> FALSE, delays |-> 0]

\* outcome is history: what the provider call returned.
IdlePerspective ==
    [pc |-> "idle", calls |-> 0, request |-> None, outcome |-> None,
     result |-> None]

IdlePlan ==
    [pc |-> "idle",
     config |-> [concurrency |-> 1,
                 retry |-> [max_attempts |-> 1, backoff_base_ms |-> 1],
                 launch_delay_ms |-> 0,
                 enabled |-> [p \in Perspectives |-> TRUE]],
     args |-> [perspectives |-> None, auto_select |-> FALSE,
              max_perspectives |-> 4, skip_reduce |-> FALSE, yes |-> FALSE],
     files |-> [prompt |-> [p \in Perspectives |-> "file"],
                reducer_prompt |-> "file"],
     select_calls |-> 0, perspective_filter |-> None,
     selected |-> <<>>, idx |-> 0, permits |-> 0,
     slept |-> FALSE, delays |-> 0,
     unit |-> [p \in Perspectives |-> IdlePerspective],
     results |-> <<>>, reducer_input |-> None, reducer_calls |-> 0,
     reduction |-> None, answers |-> None,
     attempt |-> 0, revise_calls |-> 0, last_error |-> None,
     plan |-> None, error |-> None]

IdleRunner ==
    [pc |-> "idle", provider |-> "claude_cli", session |-> None, timeout |-> 0,
     spawned |-> 0, event |-> None, exit |-> None, result |-> None]

IdleFn == [pc |-> "idle", op |-> "none", input |-> None, output |-> None]

\* report is what collect_findings returns; written is history, the content
\* of reduced.json.
IdlePostprocess ==
    [pc |-> "idle", enabled |-> FALSE, min_findings |-> 0, report |-> None,
     prompt_ok |-> TRUE, calls |-> 0, written |-> None, result |-> None]

IdleRetry ==
    [pc |-> "idle", max_attempts |-> 0, backoff_base_ms |-> 0,
     succeed_at |-> 0, attempts |-> 0, backoff_ms |-> 0, delay |-> 0,
     invocations |-> 0, errors |-> <<>>, result |-> None]

AllFiles == <<"f1", "f2", "f3", "f4", "f5">>
FileLists == {SubSeq(AllFiles, 1, n) : n \in 0..MaxFiles}
FullList == SubSeq(AllFiles, 1, MaxFiles)

\* What discover_files_for_reviewer can return: an error or a sorted list.
Discoveries == {None} \cup {Some(f) : f \in FileLists}

Found(files, prompt_ok) == [found |-> files, prompt_ok |-> prompt_ok]

\* The target directories the runs are made in.
Worlds ==
    { [r \in Reviewers |->
         IF r = "r3" THEN Found(Some(<<>>), TRUE) ELSE Found(Some(FullList), TRUE)],
      [r \in Reviewers |->
         IF r = "r1" THEN Found(Some(<<>>), TRUE) ELSE Found(Some(<<"f1">>), TRUE)],
      [r \in Reviewers |->
         CASE r = "r1" -> Found(None, TRUE)
           [] r = "r2" -> Found(Some(<<"f1">>), FALSE)
           [] r = "r3" -> Found(Some(FullList), TRUE)] }

EntryAt(age) == Some([last_run |-> StartClock - age, findings_count |-> 1])

\* The run states the runs start from: no entry, or entries 2, 24 and 25
\* hours old.
States ==
    { [r \in Reviewers |-> None],
      [r \in Reviewers |-> EntryAt(2)],
      [r \in Reviewers |-> IF r = "r1" THEN EntryAt(24) ELSE EntryAt(2)],
      [r \in Reviewers |-> IF r = "r1" THEN EntryAt(2) ELSE EntryAt(25)],
      [r \in Reviewers |-> IF r = "r2" THEN EntryAt(2) ELSE None] }

RetryConfigs ==
    [max_attempts : 1..MaxAttempts, backoff_base_ms : {0, 1}]

\* Runs that differ in the filters, the force flag and the run state.
SkipRuns ==
    /\ cfg \in [concurrency : {1},
                retry : {[max_attempts |-> 1, backoff_base_ms |-> 1]},
                max_files : {0}, launch_delay_ms : {0},
                enabled : {[r \in Reviewers |-> TRUE],
                           [r \in Reviewers |-> r # "r2"],
                           [r \in Reviewers |-> FALSE]}]
    /\ options \in [force : BOOLEAN,
                    reviewer_filter : {None, Some({"r1", "r2"})},
                    scope_filter : {None, Some({"docs"})}]
    /\ world = [r \in Reviewers |-> Found(Some(<<"f1">>), TRUE)]
    /\ state \in States

\* Runs that differ in the pool size, the retry configuration and in what
\* the reviewers find; every reviewer is enabled and none is filtered out.
ExecRuns ==
    /\ cfg \in [concurrency : 0..MaxConcurrency, retry : RetryConfigs,
                max_files : {1}, launch_delay_ms : {0},
                enabled : {[r \in Reviewers |-> TRUE]}]
    /\ options = [force |-> FALSE, reviewer_filter |-> None,
                  scope_filter |-> None]
    /\ world \in Worlds
    /\ state = [r \in Reviewers |-> None]

\* Runs with a launch delay, units of several chunks and a pool of one or more
\* permits.
PacedRuns ==
    /\ cfg \in [concurrency : 1..MaxConcurrency,
                retry : {[max_attempts |-> 1, backoff_base_ms |-> 1]},
                max_files : {1}, launch_delay_ms : {1},
                enabled : {[r \in Reviewers |-> TRUE]}]
    /\ options = [force |-> FALSE, reviewer_filter |-> None,
                  scope_filter |-> None]
    /\ world \in Worlds
    /\ state = [r \in Reviewers |-> None]

Init ==
    /\ (SkipRuns \/ ExecRuns \/ PacedRuns)
    /\ disk = state
    /\ clock = StartClock
    /\ orch = IdleOrch
    /\ permits = 0
    /\ task = [r \in Reviewers |-> IdleTask]
    /\ rt = IdleRetry
    /\ pl = IdlePlan
    /\ rn = IdleRunner
    /\ fn = IdleFn
    /\ pp = IdlePostprocess

\* ------------------------------------------------- execute_reviewer (task)
\* What one Runner.execute call can return for the session it was given.
\* claude.rs: session_id is always None; codex.rs: a thread_id may be found in
\* the output of a call that is not a resume.
ProviderOutputs(r, session_info) ==
    LET is_resume == session_info # None /\ Unwrap(session_info).is_resume
        sids == IF ProviderOf[r] = "codex_cli" /\ ~is_resume
                THEN {None, Some(<<"thread", r>>)} ELSE {None}
    IN [stdout : Stdouts, session_id : sids]

Finish(t, result) ==
    [IdleTask EXCEPT !.pc = "finished", !.result = Some(result),
                     !.chunks = t.chunks,
                     !.chunk_successes = t.chunk_successes,
                     !.chunk_failures = t.chunk_failures,
                     !.last_error = t.last_error,
                     !.session_id = t.session_id,
                     !.chain_broken = t.chain_broken,
                     !.called = t.called,
                     !.only_timeouts = t.only_timeouts,
                     !.output_stdout = t.output_stdout]

\* retry_with_backoff is entered for chunk_idx and the operation is invoked
\* for the first time.
StartChunk(t, chunk_idx) ==
    [t EXCEPT !.pc = "call", !.chunk_idx = chunk_idx, !.called = TRUE,
              !.session_info = SessionInfoFor(t.session_id, chunk_idx),
              !.attempts = 1, !.backoff_ms = cfg.retry.backoff_base_ms,
              !.inflight = t.inflight
                           \cup ChunksStartedAt(chunk_idx, Len(t.chunks))]

\* The for loop is left: the status is computed and the result returned.
EndLoop(r, t) ==
    Finish(t, ReviewerResult(r,
        StatusOf(t.chunk_successes, t.chunk_failures, t.last_error),
        Len(SeqConcat(t.chunks)), t.all_findings))

\* The loop goes on with the next chunk, or is left after the last one.
NextChunk(r, t) ==
    IF t.chunk_idx + 1 < Len(t.chunks) THEN StartChunk(t, t.chunk_idx + 1)
    ELSE EndLoop(r, t)

\* What execute_reviewer finds for the reviewer it was given.
DiscoveredFor_First(w, r) == w["r1"]

DiscoveredFor(w, r) == w[r]

\* executor.rs 70-201: discovery, the prompt read, chunking, and the first
\* provider call of the first chunk.
ExecBegin(r) ==
    /\ task[r].pc = "spawned"
    /\ LET found == DiscoveredFor(world, r).found
           prompt_ok == DiscoveredFor(world, r).prompt_ok
       IN
         LET t == task[r]
             done(status) == Finish(t, ReviewerResult(r, status, 0, <<>>))
             chunks == chunk_files(Unwrap(found), cfg.max_files)
             t1 == [t EXCEPT !.chunks = chunks,
                             !.session_id = InitialSessionId(r, Len(chunks))]
         IN IF found = None
            THEN /\ task' = [task EXCEPT ![r] = done(Failed(DiscoveryErrorText))]
                 /\ permits' = permits + 1
            ELSE IF Unwrap(found) = <<>>
            THEN /\ task' = [task EXCEPT ![r] = done(Skipped("no matching files"))]
                 /\ permits' = permits + 1
            ELSE IF ~prompt_ok
            THEN /\ task' = [task EXCEPT ![r] = done(Failed(PromptErrorText))]
                 /\ permits' = permits + 1
            ELSE /\ task' = [task EXCEPT ![r] = StartChunk(t1, 0)]
                 /\ permits' = permits
    /\ UNCHANGED <<cfg, options, world, state, disk, clock, orch, rt, pl, rn, fn, pp>>

\* executor.rs 203-234: the chunk's retry_with_backoff returned Ok(output).
ChunkOk(r, t, output) ==
    LET sid == AdoptSessionId(t.session_id, output.session_id)
        found == IF IsFinalChunk(Len(t.chunks), t.chunk_idx)
                 THEN t.all_findings \o parse_findings(output.stdout)
                 ELSE t.all_findings
    IN NextChunk(r, [t EXCEPT !.session_id = sid, !.all_findings = found,
                              !.chunk_successes = t.chunk_successes + 1,
                              !.only_timeouts = FALSE,
                              !.output_session_id = output.session_id,
                              !.output_stdout =
                                 IF t.chunk_idx = Len(t.chunks) - 1
                                 THEN Some(output.stdout) ELSE None])

\* executor.rs 235-252: the chunk's retry_with_backoff returned Err(e).
ChunkErr(r, t, e) ==
    LET t1 == [t EXCEPT !.chunk_failures = t.chunk_failures + 1,
                        !.last_error = Some(ProviderErrorText(e)),
                        !.chain_broken = @ \/ t.chunk_idx + 1 < Len(t.chunks)]
    IN IF AbortsChain(Len(t.chunks), t.chunk_idx)
       THEN EndLoop(r, t1)
       ELSE NextChunk(r, t1)

\* The task ends by a panic: its locals are dropped.
Panicked(t) ==
    [IdleTask EXCEPT !.pc = "panicked", !.chunks = t.chunks,
                     !.chain_broken = t.chain_broken, !.called = t.called,
                     !.only_timeouts = t.only_timeouts]

\* One provider call returns: retry.rs 23-41 decides, then executor.rs 203-270.
CallReturn(r) ==
    /\ task[r].pc = "call"
    /\ LET t == [task[r] EXCEPT !.inflight = @ \ {task[r].chunk_idx}]
       IN \/ \E output \in ProviderOutputs(r, t.session_info) :
               /\ RetryStep(cfg.retry, t.attempts, TRUE) = "return_ok"
               /\ task' = [task EXCEPT ![r] = ChunkOk(r, t, output)]
          \/ \E e \in ProviderErrors :
               LET step == RetryStep(cfg.retry, t.attempts, FALSE)
                   t1 == [t EXCEPT !.only_timeouts = @ /\ e = "Timeout"]
               IN CASE step = "return_err" ->
                         task' = [task EXCEPT ![r] = ChunkErr(r, t1, e)]
                    [] step = "panic" ->
                         task' = [task EXCEPT ![r] = Panicked(t1)]
                    [] step = "sleep" ->
                         \E jitter \in JitterValues(cfg.retry.backoff_base_ms) :
                         \E d \in DelayOutcomes(t.backoff_ms, jitter) :
                           task' = [task EXCEPT ![r] =
                                      IF d.panic THEN Panicked(t1)
                                      ELSE [t1 EXCEPT !.pc = "backoff",
                                                      !.delay = d.delay]]
    /\ permits' = IF task'[r].pc \in {"finished", "panicked"}
                  THEN permits + 1 ELSE permits
    /\ UNCHANGED <<cfg, options, world, state, disk, clock, orch, rt, pl, rn, fn, pp>>

\* retry.rs 39-23: the sleep ends, the backoff doubles, the operation is
\* invoked again.
BackoffDone(r) ==
    /\ task[r].pc = "backoff"
    /\ task' = [task EXCEPT ![r] =
                 [@ EXCEPT !.pc = "call", !.attempts = @ + 1,
                           !.backoff_ms = saturating_mul2(@), !.delay = 0,
                           !.inflight = @ \cup {task[r].chunk_idx}]]
    /\ UNCHANGED <<cfg, options, world, state, disk, clock, orch, permits, rt, pl, rn, fn, pp>>

\* --------------------------------------- cli::run::execute, Orchestrator::run
\* cli/run.rs 11-72 and orchestrator.rs 99-178: validation, Orchestrator::new,
\* the filters, the split into reviewers to run and reviewers already run.
RunStart ==
    /\ orch.pc = "init"
    /\ LET matched == all_reviewers(cfg, options)
           recent == {r \in Reviewers : SkipsAsRecent(options, state, r, clock)}
           reviewers == SeqFilter(matched, Reviewers \ recent)
           skipped == SeqFilter(matched, recent)
           skipped_results == [i \in 1..Len(skipped) |->
                                 AlreadyRanResult(skipped[i])]
       IN IF \A r \in Reviewers : ~cfg.enabled[r]
          THEN /\ orch' = [orch EXCEPT !.pc = "config_error"]
               /\ permits' = permits
          ELSE /\ permits' = PermitPool(cfg.concurrency)
               /\ orch' =
                    IF reviewers = <<>> /\ skipped_results = <<>>
                    THEN [orch EXCEPT !.pc = "no_reviewers_matched"]
                    ELSE [orch EXCEPT
                            !.pc = IF reviewers = <<>> THEN "returned" ELSE "launch",
                            !.matched = matched,
                            !.loaded = state,
                            !.reviewers = reviewers,
                            !.results = skipped_results]
    /\ UNCHANGED <<cfg, options, world, state, disk, clock, task, rt, pl, rn, fn, pp>>

\* orchestrator.rs 184-187: the launch loop sleeps launch_delay before every
\* launch but the first.
LaunchDelay ==
    /\ orch.pc = "launch"
    /\ NeedsLaunchDelay(orch.idx, cfg.launch_delay_ms)
    /\ ~orch.slept
    /\ orch' = [orch EXCEPT !.slept = TRUE, !.delays = @ + 1]
    /\ UNCHANGED <<cfg, options, world, state, disk, clock, permits, task, rt, pl, rn, fn, pp>>

\* orchestrator.rs 183-197: a permit is acquired, then the next reviewer's
\* task is spawned holding it.
Launch ==
    /\ orch.pc = "launch"
    /\ (NeedsLaunchDelay(orch.idx, cfg.launch_delay_ms) => orch.slept)
    /\ permits > 0
    /\ LET r == orch.reviewers[orch.idx + 1]
       IN /\ permits' = permits - 1
          /\ task' = [task EXCEPT ![r] = [@ EXCEPT !.pc = "spawned"]]
          /\ orch' = [orch EXCEPT
                        !.idx = @ + 1,
                        !.slept = FALSE,
                        !.futures = @ \cup {r},
                        !.pc = IF orch.idx + 1 = Len(orch.reviewers)
                               THEN "collect" ELSE "launch"]
    /\ UNCHANGED <<cfg, options, world, state, disk, clock, rt, pl, rn, fn, pp>>

\* orchestrator.rs 199-236: the next task to have ended is taken; a returned
\* report is pushed, a panicked task is logged; the report is returned after
\* the last one.
Collect(r) ==
    /\ orch.pc = "collect"
    /\ r \in orch.futures
    /\ task[r].pc \in {"finished", "panicked"}
    /\ orch' = [orch EXCEPT
                  !.futures = @ \ {r},
                  !.results = IF task[r].pc = "finished"
                              THEN Append(@, Unwrap(task[r].result)) ELSE @,
                  !.pc = IF orch.futures = {r} THEN "returned" ELSE "collect"]
    /\ task' = [task EXCEPT ![r] =
                 [IdleTask EXCEPT !.pc = "joined",
                                  !.chain_broken = task[r].chain_broken,
                                  !.called = task[r].called,
                                  !.only_timeouts = task[r].only_timeouts,
                                  !.output_stdout = task[r].output_stdout]]
    /\ UNCHANGED <<cfg, options, world, state, disk, clock, permits, rt, pl, rn, fn, pp>>

RECURSIVE RecordAll(_, _, _)
RecordAll(st, results, now) ==
    IF results = <<>> THEN st
    ELSE RecordAll(IF RecordsResult(Head(results))
                   THEN record_run(st, Head(results).reviewer_id,
                                   Len(Head(results).findings), now)
                   ELSE st,
                   Tail(results), now)

\* The run state recorded and saved as the results come in.
RecordAndSave_Streaming ==
    /\ orch.pc \in {"collect", "returned"}
    /\ \E elapsed \in 0..MaxElapsed, save_ok \in BOOLEAN :
         /\ clock' = clock + elapsed
         /\ state' = RecordAll(state, orch.results, clock')
         /\ disk' = IF save_ok THEN state' ELSE disk
    /\ orch' = [orch EXCEPT !.pc = IF @ = "returned" THEN "done" ELSE @]
    /\ UNCHANGED <<cfg, options, world, permits, task, rt, pl, rn, fn, pp>>

\* cli/run.rs 74-85: the run state is updated from the report and saved; a
\* failed save is logged.
RecordAndSave ==
    /\ orch.pc = "returned"
    /\ \E elapsed \in 0..MaxElapsed, save_ok \in BOOLEAN :
         /\ clock' = clock + elapsed
         /\ state' = RecordAll(state, orch.results, clock')
         /\ disk' = IF save_ok THEN state' ELSE disk
    /\ orch' = [orch EXCEPT !.pc = "done"]
    /\ UNCHANGED <<cfg, options, world, permits, task, rt, pl, rn, fn, pp>>

Next ==
    \/ RunStart
    \/ LaunchDelay
    \/ Launch
    \/ \E r \in Reviewers : ExecBegin(r)
    \/ \E r \in Reviewers : CallReturn(r)
    \/ \E r \in Reviewers : BackoffDone(r)
    \/ \E r \in Reviewers : Collect(r)
    \/ RecordAndSave

Spec == Init /\ [][Next]_vars

\* The tokio runtime polls every ready future: the run's own steps and each
\* spawned task's steps are taken once they stay enabled, and every provider
\* call and every backoff sleep ends.
Fairness ==
    /\ WF_vars(RunStart)
    /\ WF_vars(LaunchDelay)
    /\ WF_vars(Launch)
    /\ \A r \in Reviewers : WF_vars(ExecBegin(r))
    /\ \A r \in Reviewers : WF_vars(CallReturn(r))
    /\ \A r \in Reviewers : WF_vars(BackoffDone(r))
    /\ \A r \in Reviewers : WF_vars(Collect(r))
    /\ WF_vars(RecordAndSave)

SpecLive == Init /\ [][Next]_vars /\ Fairness

\* ------------------------------ retry_with_backoff on a scripted operation
\* The operation fails on every invocation before the succeed_at-th, succeeds
\* on that one, and always fails when succeed_at = 0.
SuccessValue == 42

InitRetry ==
    /\ cfg = [concurrency |-> 1,
              retry |-> [max_attempts |-> 1, backoff_base_ms |-> 1],
              max_files |-> 0, launch_delay_ms |-> 0,
              enabled |-> [r \in Reviewers |-> TRUE]]
    /\ options = [force |-> FALSE, reviewer_filter |-> None,
                  scope_filter |-> None]
    /\ world = [r \in Reviewers |-> Found(Some(<<"f1">>), TRUE)]
    /\ state = [r \in Reviewers |-> None]
    /\ disk = state
    /\ clock = StartClock
    /\ orch = IdleOrch
    /\ permits = 0
    /\ task = [r \in Reviewers |-> IdleTask]
    /\ pl = IdlePlan
    /\ rn = IdleRunner
    /\ fn = IdleFn
    /\ pp = IdlePostprocess
    /\ \E n \in 0..MaxRetryAttempts, b \in {0, 1, 2, WordMax}, k \in 0..MaxSucceedAt :
         rt = [IdleRetry EXCEPT !.max_attempts = n, !.backoff_base_ms = b,
                                !.succeed_at = k]

\* retry.rs 17-23: the locals are set and the operation is invoked.
RetryEnter ==
    /\ rt.pc = "idle"
    /\ rt' = [rt EXCEPT !.pc = "call", !.attempts = 1,
                        !.backoff_ms = rt.backoff_base_ms,
                        !.invocations = 1]
    /\ UNCHANGED orchVars

\* retry.rs 23-39: the invocation returns and the match decides.
RetryOperationReturns ==
    /\ rt.pc = "call"
    /\ IF rt.invocations = rt.succeed_at
       THEN /\ RetryStep(rt, rt.attempts, TRUE) = "return_ok"
            /\ rt' = [rt EXCEPT !.pc = "returned",
                                !.result = Some(Ok(SuccessValue))]
       ELSE \E e \in ProviderErrors :
              LET step == RetryStep(rt, rt.attempts, FALSE)
                  r1 == [rt EXCEPT !.errors = Append(@, e)]
              IN CASE step = "return_err" ->
                        rt' = [r1 EXCEPT !.pc = "returned",
                                         !.result = Some(Err(e))]
                   [] step = "panic" -> rt' = [r1 EXCEPT !.pc = "panicked"]
                   [] step = "sleep" ->
                        \E jitter \in JitterValues(rt.backoff_base_ms) :
                        \E d \in DelayOutcomes(rt.backoff_ms, jitter) :
                          rt' = IF d.panic THEN [r1 EXCEPT !.pc = "panicked"]
                                ELSE [r1 EXCEPT !.pc = "sleep",
                                                !.delay = d.delay]
    /\ UNCHANGED orchVars

\* retry.rs 39-23: the sleep ends, the backoff doubles, the operation is
\* invoked again.
RetrySleepDone ==
    /\ rt.pc = "sleep"
    /\ rt' = [rt EXCEPT !.pc = "call", !.attempts = @ + 1,
                        !.backoff_ms = saturating_mul2(@),
                        !.invocations = @ + 1]
    /\ UNCHANGED orchVars

NextRetry ==
    \/ RetryEnter
    \/ RetryOperationReturns
    \/ RetrySleepDone

SpecRetry == InitRetry /\ [][NextRetry]_vars

\* ------------------------------- cli::plan::execute, PlanOrchestrator::run
\* The plans a reducer's output can deserialize to, and the revisions.
TaskA == UnifiedTask(ImplId(1), Text("A"), "d", <<>>)
TaskB == UnifiedTask(ImplId(2), Text("B"), "d", <<ImplId(1)>>)

ReducerValue(tasks, questions) ==
    Some([tasks |-> tasks, questions |-> questions, summary |-> None])

ReducerStdouts ==
    { None,
      ReducerValue(Some(<<TaskA, TaskB>>), <<"q1">>),
      ReducerValue(Some(<<TaskA, TaskB>>), <<>>),
      ReducerValue(Some(<<UnifiedTask(ImplId(1), Text("A"), "d",
                                      <<ImplId(9)>>)>>), <<>>),
      ReducerValue(Some(<<TaskA,
                          UnifiedTask(Text("task-5"), Text("A"), "d",
                                      <<ImplId(1)>>)>>), <<"q1">>),
      ReducerValue(None, <<"q1">>) }

RevisionStdouts ==
    { None,
      Some(RevisionOutput(<<>>, None)),
      Some(RevisionOutput(<<RevisedTask(Text("A"), "d2", <<>>),
                            RevisedTask(Text("B"), "d2", <<Text("A")>>)>>,
                          Some("s"))),
      Some(RevisionOutput(<<RevisedTask(Text("B"), "d2", <<>>),
                            RevisedTask(Text("C"), "d2", <<Text("B")>>)>>,
                          None)),
      Some(RevisionOutput(<<RevisedTask(Text("C"), "d2", <<Text("Z")>>)>>,
                          None)),
      Some(RevisionOutput(<<RevisedTask(Text("A"), "d2", <<ImplId(2)>>)>>,
                          None)) }

PerspectiveStdouts == {None, Some(<<"t1">>)}

PromptStates == {"file", "missing", "unreadable"}

TwoPerspectives == <<"architecture", "custom">>

\* Plan commands that differ in which perspectives are enabled and asked for.
FilterPlans ==
    \E e \in [Perspectives -> BOOLEAN],
       f \in {None, Some(<<"architecture">>), Some(<<"security">>)},
       m \in {0, 4} :
      pl = [IdlePlan EXCEPT !.pc = "start", !.config.enabled = e,
                            !.args.perspectives = f, !.args.max_perspectives = m,
                            !.args.skip_reduce = TRUE]

\* Plan commands that differ in the prompt files found on disk.
PromptPlans ==
    \E pf \in [Perspectives -> PromptStates], rp \in PromptStates :
      pl = [IdlePlan EXCEPT !.pc = "start", !.files.prompt = pf,
                            !.files.reducer_prompt = rp, !.args.yes = TRUE,
                            !.args.perspectives = Some(TwoPerspectives)]

\* Plan commands that differ in the pool size, the retry configuration and
\* the flags.
FlagPlans ==
    \E c \in 1..MaxConcurrency, r \in RetryConfigs, sr, y \in BOOLEAN :
      pl = [IdlePlan EXCEPT !.pc = "start", !.config.concurrency = c,
                            !.config.retry = r, !.args.skip_reduce = sr,
                            !.args.yes = y,
                            !.args.perspectives = Some(TwoPerspectives)]

\* Plan commands run with --auto-select that differ in which perspectives
\* are enabled.
SelectPlans ==
    \E e \in [Perspectives -> BOOLEAN], m \in {0, 1, 4} :
      pl = [IdlePlan EXCEPT !.pc = "start", !.config.enabled = e,
                            !.config.launch_delay_ms = 1,
                            !.args.max_perspectives = m,
                            !.args.auto_select = TRUE,
                            !.args.skip_reduce = TRUE]

InitPlan ==
    /\ cfg = [concurrency |-> 1,
              retry |-> [max_attempts |-> 1, backoff_base_ms |-> 1],
              max_files |-> 0, launch_delay_ms |-> 0,
              enabled |-> [r \in Reviewers |-> TRUE]]
    /\ options = [force |-> FALSE, reviewer_filter |-> None,
                  scope_filter |-> None]
    /\ world = [r \in Reviewers |-> Found(Some(<<"f1">>), TRUE)]
    /\ state = [r \in Reviewers |-> None]
    /\ disk = state
    /\ clock = StartClock
    /\ orch = IdleOrch
    /\ permits = 0
    /\ task = [r \in Reviewers |-> IdleTask]
    /\ rt = IdleRetry
    /\ rn = IdleRunner
    /\ fn = IdleFn
    /\ pp = IdlePostprocess
    /\ (FilterPlans \/ PromptPlans \/ FlagPlans \/ SelectPlans)

planVars ==
    <<cfg, options, world, state, disk, clock, orch, permits, task, rt, rn, fn, pp>>

NoPerspectivesMatchedText == <<"NoPerspectivesMatched">>
AllPerspectivesFailedText == <<"All perspectives failed">>
NoFragmentsToReduceText == <<"NoFragmentsToReduce">>
ReducerPromptText == <<"Failed to read reducer prompt">>
PromptNotFoundText == <<"Prompt file not found and no embedded default">>
ParseOutputText(e) == <<"Failed to parse output">> \o e
RevisionDeclinedText == <<"Revision failed and user chose not to continue">>

\* The ids a selection response can name, None when no JSON with a selected
\* list is found in it.
SelectionStdouts ==
    { None, Some(<<>>), Some(<<"architecture">>), Some(<<"security">>),
      Some(<<"generalist", "custom">>) }

SelectionText == <<"Could not find JSON in selection response">>

parse_selection_response(raw) ==
    IF raw = None THEN Err(SelectionText) ELSE Ok(Unwrap(raw))

Take(seq, n) == SubSeq(seq, 1, IF n < Len(seq) THEN n ELSE Len(seq))

\* cli/plan.rs 124-127: generalist is pushed to the selection unless it is
\* in it.
WithGeneralist(selected) ==
    IF "generalist" \in Range(selected) THEN selected
    ELSE Append(selected, "generalist")

\* cli/plan.rs 107-142, planner/orchestrator.rs 169-200: the filter is taken
\* from the arguments, or the selection call is made with --auto-select.
PlanFilter ==
    /\ pl.pc = "start"
    /\ IF pl.args.auto_select
       THEN pl' = [pl EXCEPT !.pc = "selecting", !.select_calls = @ + 1]
       ELSE IF pl.args.perspectives # None
       THEN pl' = [pl EXCEPT
                     !.pc = "init",
                     !.perspective_filter =
                        Some(Range(Take(Unwrap(pl.args.perspectives),
                                        pl.args.max_perspectives)))]
       ELSE pl' = [pl EXCEPT !.pc = "init", !.perspective_filter = None]
    /\ UNCHANGED planVars

\* planner/orchestrator.rs 200-213, cli/plan.rs 113-135: the selection call
\* returns; its error or an unparseable response ends the command.
PlanSelected ==
    /\ pl.pc = "selecting"
    /\ LET Returned(output) ==
             LET selection == parse_selection_response(output.value)
             IN IF ~output.ok
                THEN pl' = [pl EXCEPT !.pc = "error",
                                      !.error = Some(ProviderErrorText(output.value))]
                ELSE IF ~selection.ok
                THEN pl' = [pl EXCEPT !.pc = "error",
                                      !.error = Some(selection.value)]
                ELSE pl' = [pl EXCEPT
                              !.pc = "init",
                              !.perspective_filter =
                                 Some(Range(WithGeneralist(selection.value)))]
       IN \/ \E e \in ProviderErrors : Returned(Err(e))
          \/ \E o \in SelectionStdouts : Returned(Ok(o))
    /\ UNCHANGED planVars

\* planner/orchestrator.rs 49-78: the perspectives are filtered; with none
\* left the run is an error, otherwise the launch loop starts.
PlanRunStart ==
    /\ pl.pc = "init"
    /\ LET perspectives ==
             SeqFilter(PerspectiveOrder,
                       {p \in Perspectives :
                          MatchesPerspectiveFilter(pl.config.enabled,
                                                   pl.perspective_filter, p)})
       IN IF perspectives = <<>>
          THEN pl' = [pl EXCEPT !.pc = "error",
                                !.error = Some(NoPerspectivesMatchedText)]
          ELSE pl' = [pl EXCEPT !.pc = "launching",
                                !.selected = perspectives,
                                !.permits = pl.config.concurrency]
    /\ UNCHANGED planVars

\* planner/orchestrator.rs 81-84: the launch loop sleeps launch_delay before
\* every launch but the first.
PlanLaunchDelay ==
    /\ pl.pc = "launching"
    /\ NeedsLaunchDelay(pl.idx, pl.config.launch_delay_ms)
    /\ ~pl.slept
    /\ pl' = [pl EXCEPT !.slept = TRUE, !.delays = @ + 1]
    /\ UNCHANGED planVars

\* planner/orchestrator.rs 80-94: a permit is taken and the task spawned.
PlanLaunch ==
    /\ pl.pc = "launching"
    /\ (NeedsLaunchDelay(pl.idx, pl.config.launch_delay_ms) => pl.slept)
    /\ pl.permits > 0
    /\ LET p == pl.selected[pl.idx + 1]
       IN pl' = [pl EXCEPT !.unit[p].pc = "spawned",
                           !.permits = @ - 1,
                           !.idx = @ + 1,
                           !.slept = FALSE,
                           !.pc = IF pl.idx + 1 = Len(pl.selected)
                                  THEN "collecting" ELSE "launching"]
    /\ UNCHANGED planVars

\* planner/orchestrator.rs 372-374: runner.execute(&full_prompt, &[], timeout,
\* None), the files and the session handle of a perspective's provider call.
PerspectiveRequest_Resumed(p) ==
    [files |-> <<>>,
     session |-> Some([session_id |-> Some(<<"thread", p>>),
                       is_resume |-> TRUE])]

PerspectiveRequest(p) == [files |-> <<>>, session |-> None]

\* planner/orchestrator.rs 294-374: the prompt is read; without one the task
\* returns a Failed result, with one the provider is called, once.
PerspectiveBegin(p) ==
    /\ pl.unit[p].pc = "spawned"
    /\ LET prompt_template ==
             CASE pl.files.prompt[p] = "file" -> Ok(Some(p))
               [] pl.files.prompt[p] = "missing" ->
                    IF get_embedded_prompt(p) # None
                    THEN Ok(get_embedded_prompt(p))
                    ELSE Err(PromptNotFoundText)
               [] OTHER -> Err(PromptErrorText)
       IN IF prompt_template.ok
          THEN pl' = [pl EXCEPT !.unit[p].pc = "calling",
                                !.unit[p].calls = @ + 1,
                                !.unit[p].request =
                                   Some(PerspectiveRequest(p))]
          ELSE pl' = [pl EXCEPT
                        !.unit[p].pc = "done",
                        !.unit[p].result =
                           Some(PerspectiveResult(p, Failed(prompt_template.value),
                                                  None)),
                        !.permits = @ + 1]
    /\ UNCHANGED planVars

\* planner/orchestrator.rs 376-412: the call returns and the task ends.
PerspectiveReturn(p) ==
    /\ pl.unit[p].pc = "calling"
    /\ LET Returned(result) ==
             LET parsed == parse_plan_fragment(result.value, p)
                 perspective_result ==
                   IF ~result.ok
                   THEN PerspectiveResult(p, Failed(ProviderErrorText(result.value)),
                                          None)
                   ELSE IF parsed.ok
                   THEN PerspectiveResult(p, Completed, Some(parsed.value))
                   ELSE PerspectiveResult(p, Failed(ParseOutputText(parsed.value)),
                                          None)
             IN pl' = [pl EXCEPT !.unit[p].pc = "done",
                                 !.unit[p].outcome = Some(result),
                                 !.unit[p].result = Some(perspective_result),
                                 !.permits = @ + 1]
       IN \/ \E e \in ProviderErrors : Returned(Err(e))
          \/ \E o \in PerspectiveStdouts : Returned(Ok(o))
    /\ UNCHANGED planVars

\* planner/orchestrator.rs 96-127: a finished task's result is pushed.
PlanCollect(p) ==
    /\ pl.pc = "collecting"
    /\ pl.unit[p].pc = "done"
    /\ pl' = [pl EXCEPT !.unit[p].pc = "joined",
                        !.results = Append(@, Unwrap(pl.unit[p].result))]
    /\ UNCHANGED planVars

\* cli/plan.rs 185-242: the results are counted; with none Completed the
\* command fails, with --skip-reduce it ends after saving the fragments.
PlanCount ==
    /\ pl.pc = "collecting"
    /\ \A p \in Range(pl.selected) : pl.unit[p].pc = "joined"
    /\ LET succeeded ==
             Cardinality({i \in 1..Len(pl.results) :
                            pl.results[i].status = Completed})
       IN pl' = [pl EXCEPT
                   !.pc = IF succeeded = 0 THEN "error"
                          ELSE IF pl.args.skip_reduce THEN "fragments_saved"
                          ELSE "reducing",
                   !.error = IF succeeded = 0
                             THEN Some(AllPerspectivesFailedText) ELSE @]
    /\ UNCHANGED planVars

\* planner/reducer.rs 28-65: the fragments are collected and the prompt is
\* loaded; then the reducer is called.
ReduceBegin ==
    /\ pl.pc = "reducing"
    /\ LET fragments == ReducerInput(pl.results)
       IN IF fragments = <<>>
          THEN pl' = [pl EXCEPT !.pc = "error",
                                !.error = Some(NoFragmentsToReduceText)]
          ELSE IF pl.files.reducer_prompt = "unreadable"
          THEN pl' = [pl EXCEPT !.pc = "error",
                                !.error = Some(ReducerPromptText)]
          ELSE pl' = [pl EXCEPT !.pc = "reducer_called",
                                !.reducer_input = Some(fragments),
                                !.reducer_calls = @ + 1]
    /\ UNCHANGED planVars

\* planner/reducer.rs 65-84, cli/plan.rs 254: the reducer's call returns.
ReduceReturn ==
    /\ pl.pc = "reducer_called"
    /\ LET Returned(output) ==
             LET plan == parse_unified_plan(output.value)
             IN IF ~output.ok
                THEN pl' = [pl EXCEPT !.pc = "error",
                                      !.error = Some(ProviderErrorText(output.value))]
                ELSE IF ~plan.ok
                THEN pl' = [pl EXCEPT !.pc = "error", !.error = Some(plan.value)]
                ELSE pl' = [pl EXCEPT !.pc = "questions",
                                      !.reduction = Some(plan.value)]
       IN \/ \E e \in ProviderErrors : Returned(Err(e))
          \/ \E o \in ReducerStdouts : Returned(Ok(o))
    /\ UNCHANGED planVars

\* cli/plan.rs 262-357: the questions are put to the user, unless there are
\* none or --yes is given; with an answer that is not skipped the plan is
\* revised, otherwise the reduced plan is the plan.
PlanQuestions ==
    /\ pl.pc = "questions"
    /\ LET plan == Unwrap(pl.reduction)
       IN IF plan.questions = <<>> \/ pl.args.yes
          THEN pl' = [pl EXCEPT !.pc = "approval", !.answers = Some(<<>>),
                                !.plan = pl.reduction]
          ELSE \E input \in {"q", "", "text"} :
                 pl' = CASE input = "q" -> [pl EXCEPT !.pc = "cancelled"]
                         [] input = "" ->
                              [pl EXCEPT !.pc = "approval",
                                         !.answers = Some(<<"(skipped)">>),
                                         !.plan = pl.reduction]
                         [] OTHER ->
                              [pl EXCEPT !.pc = "revising",
                                         !.answers = Some(<<input>>),
                                         !.attempt = 0]
    /\ UNCHANGED planVars

\* planner/reducer.rs 312-378: revise_plan's loop head; the provider is
\* called for the attempt, or the attempts are used up.
ReviseCall ==
    /\ pl.pc = "revising"
    /\ IF pl.attempt <= MAX_REVISION_RETRIES
       THEN pl' = [pl EXCEPT !.pc = "revise_called", !.revise_calls = @ + 1]
       ELSE pl' = [pl EXCEPT !.pc = "revise_failed"]
    /\ UNCHANGED planVars

\* planner/reducer.rs 378-394: the call's error ends revise_plan; its output
\* is parsed, and a parse error starts the next attempt.
ReviseReturn ==
    /\ pl.pc = "revise_called"
    /\ LET Returned(output) ==
             LET revised == parse_revision_yaml(output.value, Unwrap(pl.reduction))
             IN IF ~output.ok
                THEN pl' = [pl EXCEPT !.pc = "revise_failed",
                                      !.last_error = Some(ProviderErrorText(output.value))]
                ELSE IF revised.ok
                THEN pl' = [pl EXCEPT !.pc = "approval",
                                      !.plan = Some(revised.value)]
                ELSE pl' = [pl EXCEPT !.pc = "revising",
                                      !.attempt = @ + 1,
                                      !.last_error = Some(revised.value)]
       IN \/ \E e \in ProviderErrors : Returned(Err(e))
          \/ \E o \in RevisionStdouts : Returned(Ok(o))
    /\ UNCHANGED planVars

\* cli/plan.rs 332-345: revise_plan failed and the user is asked whether to
\* go on with the reduced plan.
ReviseFailed ==
    /\ pl.pc = "revise_failed"
    /\ \E input \in {"y", "n"} :
         IF input = "y"
         THEN pl' = [pl EXCEPT !.pc = "approval", !.plan = pl.reduction]
         ELSE pl' = [pl EXCEPT !.pc = "error",
                               !.error = Some(RevisionDeclinedText)]
    /\ UNCHANGED planVars

\* cli/plan.rs 395-416: the user approves the plan, unless --yes is given or
\* questions were put, and the plan is written.
PlanSave ==
    /\ pl.pc = "approval"
    /\ IF ~pl.args.yes /\ Unwrap(pl.answers) = <<>>
       THEN \E input \in {"y", "n"} :
              pl' = [pl EXCEPT !.pc = IF input = "y" THEN "saved"
                                      ELSE "cancelled"]
       ELSE pl' = [pl EXCEPT !.pc = "saved"]
    /\ UNCHANGED planVars

NextPlan ==
    \/ PlanFilter
    \/ PlanSelected
    \/ PlanRunStart
    \/ PlanLaunchDelay
    \/ PlanLaunch
    \/ \E p \in Perspectives : PerspectiveBegin(p)
    \/ \E p \in Perspectives : PerspectiveReturn(p)
    \/ \E p \in Perspectives : PlanCollect(p)
    \/ PlanCount
    \/ ReduceBegin
    \/ ReduceReturn
    \/ PlanQuestions
    \/ ReviseCall
    \/ ReviseReturn
    \/ ReviseFailed
    \/ PlanSave

SpecPlan == InitPlan /\ [][NextPlan]_vars

\* --------------------------- provider/claude.rs, provider/codex.rs: execute
\* Every other variable, at rest.
NoRun ==
    /\ cfg = [concurrency |-> 1,
              retry |-> [max_attempts |-> 1, backoff_base_ms |-> 1],
              max_files |-> 0, launch_delay_ms |-> 0,
              enabled |-> [r \in Reviewers |-> TRUE]]
    /\ options = [force |-> FALSE, reviewer_filter |-> None,
                  scope_filter |-> None]
    /\ world = [r \in Reviewers |-> Found(Some(<<"f1">>), TRUE)]
    /\ state = [r \in Reviewers |-> None]
    /\ disk = state
    /\ clock = StartClock
    /\ orch = IdleOrch
    /\ permits = 0
    /\ task = [r \in Reviewers |-> IdleTask]
    /\ rt = IdleRetry
    /\ pl = IdlePlan

runnerVars ==
    <<cfg, options, world, state, disk, clock, orch, permits, task, rt, pl, fn, pp>>

Providers == {"claude_cli", "codex_cli"}

SessionInfos ==
    {None} \cup {Some([session_id |-> Some("s1"), is_resume |-> r]) :
                   r \in BOOLEAN}

\* What a process that ran to its end leaves: its exit code, None when a
\* signal ended it, its stdout and stderr, the thread_id in its JSON events
\* and the last message file, None when it cannot be read.
ExitCodes == {Some(0), Some(1), None}

ProcessOutputs ==
    [code : ExitCodes, stdout : {"out"}, stderr : {"", "err"},
     thread_id : {None, Some("t1")}, last_message : {None, Some("msg")}]

TimeoutError(timeout) == [kind |-> "Timeout", timeout |-> timeout]
IoError == [kind |-> "Io"]
NonZeroExit(code, stderr) == [kind |-> "NonZeroExit", code |-> code, stderr |-> stderr]

ProviderOutput(stdout, stderr, exit_code, session_id) ==
    [stdout |-> stdout, stderr |-> stderr, exit_code |-> exit_code,
     session_id |-> session_id]

IsResume(session) == IF session = None THEN FALSE ELSE Unwrap(session).is_resume

\* output.status.code().unwrap_or(-1)
ExitCode(code) == IF code = None THEN -1 ELSE Unwrap(code)

\* output.status.success()
StatusSuccess(code) == code = Some(0)

\* The stdout and the session id of the result: claude returns the process's
\* stdout and no session id; codex returns, unless the call is a resume, the
\* last message file and the thread_id of the events.
FinalStdout(provider, session, out) ==
    IF provider = "claude_cli" \/ IsResume(session) THEN out.stdout
    ELSE IF out.last_message # None THEN Unwrap(out.last_message) ELSE ""

FinalSessionId(provider, session, out) ==
    IF provider = "claude_cli" \/ IsResume(session) THEN None
    ELSE out.thread_id

\* claude.rs 84-99, codex.rs 118-133: the result for a process that ended.
ExitResult_AlwaysOk(provider, session, out) ==
    Ok(ProviderOutput(FinalStdout(provider, session, out), out.stderr,
                      ExitCode(out.code), FinalSessionId(provider, session, out)))

ExitResult(provider, session, out) ==
    IF StatusSuccess(out.code)
    THEN Ok(ProviderOutput(FinalStdout(provider, session, out), out.stderr,
                           ExitCode(out.code),
                           FinalSessionId(provider, session, out)))
    ELSE Err(NonZeroExit(ExitCode(out.code), out.stderr))

InitRunner ==
    /\ NoRun
    /\ pp = IdlePostprocess
    /\ fn = IdleFn
    /\ \E p \in Providers, s \in SessionInfos, t \in 1..MaxTimeout :
         rn = [IdleRunner EXCEPT !.pc = "called", !.provider = p,
                                 !.session = s, !.timeout = t]

RunnerReturns(event, result) ==
    rn' = [rn EXCEPT !.pc = "returned", !.event = Some(event),
                     !.result = Some(result)]

\* claude.rs 32-75, codex.rs 31-77: the command is built; codex creates the
\* last message file unless the call is a resume.
RunnerPrepare ==
    /\ rn.pc = "called"
    /\ \/ rn' = [rn EXCEPT !.pc = "ready"]
       \/ /\ rn.provider = "codex_cli" /\ ~IsResume(rn.session)
          /\ RunnerReturns("tempfile_failed", Err(IoError))
    /\ UNCHANGED runnerVars

\* claude.rs 79, codex.rs 86: the process is spawned.
RunnerSpawn ==
    /\ rn.pc = "ready"
    /\ \/ rn' = [rn EXCEPT !.pc = IF rn.provider = "codex_cli" THEN "writing"
                                  ELSE "running",
                           !.spawned = @ + 1]
       \/ RunnerReturns("spawn_failed", Err(IoError))
    /\ UNCHANGED runnerVars

\* codex.rs 88-95: the prompt is written to the process's stdin.
RunnerWriteStdin ==
    /\ rn.pc = "writing"
    /\ \/ rn' = [rn EXCEPT !.pc = "running"]
       \/ RunnerReturns("stdin_failed", Err(IoError))
    /\ UNCHANGED runnerVars

\* claude.rs 79-99, codex.rs 97-133: the wait ends by the timeout, by an I/O
\* error or by the process's end.
RunnerWait ==
    /\ rn.pc = "running"
    /\ \/ RunnerReturns("timed_out", Err(TimeoutError(rn.timeout)))
       \/ RunnerReturns("wait_failed", Err(IoError))
       \/ \E out \in ProcessOutputs :
            rn' = [rn EXCEPT !.pc = "returned", !.event = Some("exited"),
                             !.exit = Some(out),
                             !.result = Some(ExitResult(rn.provider, rn.session, out))]
    /\ UNCHANGED runnerVars

NextRunner ==
    \/ RunnerPrepare
    \/ RunnerSpawn
    \/ RunnerWriteStdin
    \/ RunnerWait

SpecRunner == InitRunner /\ [][NextRunner]_vars

\* ------------------------------------------- pure functions on their inputs
\* ------------ planner/parser.rs: try_parse_fragment, reducer.rs: try_parse_plan
\* A JSON document is described by what serde makes of its members: a list
\* member is None when the key is absent, else the list of its elements, each
\* of which deserializes into its typed form (ok) or does not; summary is
\* "absent", "string" or "number"; perspective is None or a string.
MaxListLen == 2

JsonElements ==
    { [ok |-> TRUE, v |-> "a"], [ok |-> TRUE, v |-> "b"],
      [ok |-> FALSE, v |-> "x"] }

JsonLists == UNION {[1..n -> JsonElements] : n \in 0..MaxListLen}

WellFormed(e) == e.ok

\* serde_json::from_value::<Vec<T>>(v).ok(): every element or nothing.
from_value_vec(list) ==
    IF \A i \in 1..Len(list) : list[i].ok THEN Some(list) ELSE None

\* into_iter().filter_map(|v| serde_json::from_value(v).ok()).collect()
filter_map_from_value(list) == SelectSeq(list, WellFormed)

\* #[serde(default)] Vec<serde_json::Value>, then the filter_map over it.
filter_map_or_default(member) ==
    IF member = None THEN <<>> ELSE filter_map_from_value(Unwrap(member))

\* value.get(key).and_then(|v| from_value(v.clone()).ok()).unwrap_or_default()
get_or_default(member) ==
    IF member = None \/ from_value_vec(Unwrap(member)) = None THEN <<>>
    ELSE Unwrap(from_value_vec(Unwrap(member)))

\* #[serde(default)] on a Vec<T> member of a derived struct: None when an
\* element does not deserialize.
StrictList(member) ==
    IF member = None THEN Some(<<>>) ELSE from_value_vec(Unwrap(member))

PlanFragment(perspective, tasks, concerns, questions) ==
    [perspective |-> perspective, tasks |-> tasks, concerns |-> concerns,
     questions |-> questions]

\* parser.rs 34-139 on a string that holds the JSON object doc.
try_parse_fragment(doc, perspective_id) ==
    LET id == IF doc.perspective = None \/ doc.perspective = Some("")
              THEN perspective_id ELSE Unwrap(doc.perspective)
        direct == /\ doc.perspective # None
                  /\ doc.summary # "number"
                  /\ StrictList(doc.tasks) # None
                  /\ StrictList(doc.concerns) # None
                  /\ StrictList(doc.questions) # None
        alt == doc.summary # "number"
    IN IF direct
       THEN Some(PlanFragment(id, Unwrap(StrictList(doc.tasks)),
                              Unwrap(StrictList(doc.concerns)),
                              Unwrap(StrictList(doc.questions))))
       ELSE IF alt
       THEN Some(PlanFragment(id,
                              filter_map_or_default(doc.tasks),
                              filter_map_or_default(doc.concerns),
                              filter_map_or_default(doc.questions)))
       ELSE Some(PlanFragment(id, get_or_default(doc.tasks),
                              get_or_default(doc.concerns),
                              get_or_default(doc.questions)))

\* reducer.rs 156-206 on a string that holds the JSON object doc, list by
\* list.
try_parse_plan_value(doc) ==
    LET direct == /\ doc.tasks # None
                  /\ doc.summary # "number"
                  /\ StrictList(doc.tasks) # None
                  /\ StrictList(doc.questions) # None
                  /\ StrictList(doc.risks) # None
                  /\ StrictList(doc.deferred) # None
    IN IF direct
       THEN Some([tasks |-> Unwrap(StrictList(doc.tasks)),
                  questions |-> Unwrap(StrictList(doc.questions)),
                  risks |-> Unwrap(StrictList(doc.risks)),
                  deferred |-> Unwrap(StrictList(doc.deferred))])
       ELSE Some([tasks |-> get_or_default(doc.tasks),
                  questions |-> get_or_default(doc.questions),
                  risks |-> get_or_default(doc.risks),
                  deferred |-> get_or_default(doc.deferred)])

fnVars ==
    <<cfg, options, world, state, disk, clock, orch, permits, task, rt, pl, rn, pp>>

FnCall(op, input) ==
    fn = [pc |-> "called", op |-> op, input |-> input, output |-> None]

FnReturns(output) == fn' = [fn EXCEPT !.pc = "returned", !.output = Some(output)]

FileList(n) == [i \in 1..n |-> <<"file", i>>]

ChunkInputs ==
    \E n \in 0..MaxChunkInput, m \in 0..MaxChunkSize :
      FnCall("chunk_files", [files |-> FileList(n), max_size |-> m])

ApplyChunkFiles ==
    /\ fn.pc = "called" /\ fn.op = "chunk_files"
    /\ FnReturns(chunk_files(fn.input.files, fn.input.max_size))
    /\ UNCHANGED fnVars

ReviewerIds == {<<"r">>, <<"s">>, <<"r", "|", "f">>}

Snippets ==
    { None, Some(<<>>), Some(<<" ">>), Some(<<"x", "y">>),
      Some(<<"x", " ", "y">>), Some(<<"x", " ", " ", "y">>),
      Some(<<" ", "x", "\n", "\t", "y", " ">>) }

Findings ==
    { Finding(f, l, <<"t">>, sn, ti) :
        f \in {<<"f">>, <<"f", "|", "0">>}, l \in {0, 42}, sn \in Snippets,
        ti \in {"T1", "T2"} }

\* Two fingerprint calls, to be compared.
FingerprintInputs ==
    \E f1, f2 \in Findings, r1, r2 \in ReviewerIds :
      FnCall("fingerprint",
             <<[finding |-> f1, reviewer_id |-> r1],
               [finding |-> f2, reviewer_id |-> r2]>>)

ApplyFingerprint ==
    /\ fn.pc = "called" /\ fn.op = "fingerprint"
    /\ FnReturns([i \in 1..2 |->
                    fingerprint(fn.input[i].finding, fn.input[i].reviewer_id)])
    /\ UNCHANGED fnVars

FindingLists == {<<>>, <<"T1">>, <<"T2", "T1">>}
FindingsMembers == {None} \cup {Some(l) : l \in FindingLists}

\* Strings without a result member, and strings that may hold one.
PlainRaws ==
    {RawJson(w, None) : w \in BOOLEAN}
      \cup {RawJson(w, Some(JsonObject(None, f))) :
              w \in BOOLEAN, f \in FindingsMembers}

NestedRaws ==
    PlainRaws
      \cup {RawJson(w, Some(JsonObject(Some(r), f))) :
              w \in BOOLEAN, r \in PlainRaws, f \in FindingsMembers}

\* The envelope {"result": s, ...}; others is what its other members make
\* of a findings member.
Envelope(s, others) == RawJson(TRUE, Some(JsonObject(Some(s), others)))

EnvelopeInputs ==
    \E s \in NestedRaws, others \in FindingsMembers :
      FnCall("try_parse_json", [s |-> s, others |-> others])

ApplyTryParseJson ==
    /\ fn.pc = "called" /\ fn.op = "try_parse_json"
    /\ FnReturns([wrapped |-> try_parse_json(Envelope(fn.input.s, fn.input.others)),
                  alone |-> try_parse_json(fn.input.s)])
    /\ UNCHANGED fnVars

HeaderRow == TableRow("file", None, "severity")
RuleRow == TableRow("------", None, "----------")

TableRowsInUse ==
    { HeaderRow, RuleRow,
      TableRow("a.py", Some(3), "critical"),
      TableRow("b.py", Some(0), "medium"),
      TableRow("c.py", Some(WordMax), "low"),
      TableRow("d.py", Some(3), "HIGH"),
      TableRow("File", Some(3), "p0"),
      TableRow("e.py", Some(WordMax + 1), "p1"),
      TableRow("f.py", Some(5), "high"),
      TableRow("g.py", Some(2), "p2") }

Tables ==
    UNION {[1..n -> TableRowsInUse] : n \in 0..MaxTableRows}

TableInputs ==
    \E raw \in Tables, r \in {"sec", "Sec"} :
      FnCall("try_parse_markdown_table", [raw |-> raw, reviewer_id |-> r])

ApplyTryParseMarkdownTable ==
    /\ fn.pc = "called" /\ fn.op = "try_parse_markdown_table"
    /\ FnReturns(try_parse_markdown_table(fn.input.raw, fn.input.reviewer_id,
                                          "p1"))
    /\ UNCHANGED fnVars

\* parser/mod.rs 11-27: parse_findings on a raw output described by what each
\* stage reads in it, the JSON it holds and its table lines.
parse_findings_raw(raw, reviewer_id, default_priority) ==
    IF try_parse_json(raw.json) # None
    THEN Unwrap(try_parse_json(raw.json))
    ELSE IF try_parse_markdown_table(raw.table, reviewer_id,
                                     default_priority) # None
    THEN Unwrap(try_parse_markdown_table(raw.table, reviewer_id,
                                         default_priority))
    ELSE <<>>

ShortTables == {t \in Tables : Len(t) < MaxTableRows}

ParseFindingsInputs ==
    \E j \in PlainRaws, t \in ShortTables :
      FnCall("parse_findings", [json |-> j, table |-> t])

ApplyParseFindings ==
    /\ fn.pc = "called" /\ fn.op = "parse_findings"
    /\ FnReturns(parse_findings_raw(fn.input, "sec", "p1"))
    /\ UNCHANGED fnVars

ListMembers == {None} \cup {Some(l) : l \in JsonLists}

FewMembers ==
    {None, Some(<<>>), Some(<<[ok |-> FALSE, v |-> "x"]>>),
     Some(<<[ok |-> TRUE, v |-> "a"], [ok |-> FALSE, v |-> "x"]>>)}

FragmentInputs ==
    \E p \in {None, Some(""), Some("security")},
       s \in {"absent", "string", "number"},
       t \in ListMembers, c \in FewMembers, q \in FewMembers :
      FnCall("try_parse_fragment",
             [perspective |-> p, summary |-> s, tasks |-> t, concerns |-> c,
              questions |-> q])

ApplyTryParseFragment ==
    /\ fn.pc = "called" /\ fn.op = "try_parse_fragment"
    /\ FnReturns(try_parse_fragment(fn.input, "architecture"))
    /\ UNCHANGED fnVars

PlanInputs ==
    \E s \in {"absent", "string", "number"},
       t \in ListMembers, q \in FewMembers, r \in FewMembers,
       d \in FewMembers :
      FnCall("try_parse_plan",
             [summary |-> s, tasks |-> t, questions |-> q, risks |-> r,
              deferred |-> d])

ApplyTryParsePlan ==
    /\ fn.pc = "called" /\ fn.op = "try_parse_plan"
    /\ FnReturns(try_parse_plan_value(fn.input))
    /\ UNCHANGED fnVars

InitFn ==
    /\ NoRun
    /\ pp = IdlePostprocess
    /\ rn = IdleRunner
    /\ (ChunkInputs \/ FingerprintInputs \/ EnvelopeInputs \/ TableInputs
        \/ FragmentInputs \/ PlanInputs \/ ParseFindingsInputs)

NextFn ==
    \/ ApplyChunkFiles
    \/ ApplyFingerprint
    \/ ApplyTryParseJson
    \/ ApplyTryParseMarkdownTable
    \/ ApplyTryParseFragment
    \/ ApplyTryParsePlan
    \/ ApplyParseFindings

SpecFn == InitFn /\ [][NextFn]_vars

\* ------------------------------------------ postprocess/mod.rs: run_postprocess
MaxCollected == 3
MaxMinFindings == 3

SourcedFinding(reviewer_id, finding) ==
    [reviewer_id |-> reviewer_id, fingerprint |-> <<"fp", reviewer_id, finding>>,
     finding |-> finding]

ReducedFinding(merged_from, finding) ==
    [merged_from |-> merged_from, finding |-> finding]

PostprocessResult(original_count, reduced_count, clusters, findings, summary) ==
    [original_count |-> original_count, reduced_count |-> reduced_count,
     clusters |-> clusters, findings |-> findings, summary |-> summary]

\* mod.rs 114: the reduction is skipped below the threshold.
BelowThreshold_Inclusive(count, min_findings) == count <= min_findings

BelowThreshold(count, min_findings) == count < min_findings

\* mod.rs 121-143: the collected findings, each as a finding merged from
\* itself.
Aggregated(sourced_findings) ==
    PostprocessResult(Len(sourced_findings), Len(sourced_findings), <<>>,
                      [i \in 1..Len(sourced_findings) |->
                         ReducedFinding(<<sourced_findings[i].fingerprint>>,
                                        sourced_findings[i].finding)],
                      None)

\* mod.rs 175-181: the result of a reduction.
Reduced(sourced_findings, reduced) ==
    PostprocessResult(Len(sourced_findings), Len(reduced.findings),
                      reduced.clusters, reduced.findings, reduced.summary)

CollectedFindings ==
    {SourcedFinding("r1", "F1"), SourcedFinding("r1", "F2"),
     SourcedFinding("r2", "F1")}

Collections == UNION {[1..n -> CollectedFindings] : n \in 0..MaxCollected}

\* What parse_reduced_output reads in the tool's stdout, None when nothing.
ReducedOutputs ==
    { None,
      Some([findings |-> <<>>, clusters |-> <<>>, summary |-> None]),
      Some([findings |-> <<ReducedFinding(<<<<"fp", "r1", "F1">>,
                                            <<"fp", "r2", "F1">>>>, "F1")>>,
            clusters |-> <<"c1">>, summary |-> Some("s")]) }

CollectErrorText == <<"IO error">>
ReducedParseText == <<"Could not parse reduced findings from CLI output">>
WriteErrorText == <<"IO error">>

postVars ==
    <<cfg, options, world, state, disk, clock, orch, permits, task, rt, pl, rn, fn>>

InitPost ==
    /\ NoRun
    /\ rn = IdleRunner
    /\ fn = IdleFn
    /\ \E e \in BOOLEAN, m \in 0..MaxMinFindings, ok \in BOOLEAN :
         \/ \E c \in Collections :
              pp = [IdlePostprocess EXCEPT !.pc = "start", !.enabled = e,
                                           !.min_findings = m,
                                           !.report = Ok(c), !.prompt_ok = ok]
         \/ pp = [IdlePostprocess EXCEPT !.pc = "start", !.enabled = e,
                                         !.min_findings = m,
                                         !.report = Err(CollectErrorText),
                                         !.prompt_ok = ok]

\* mod.rs 100-168: disabled, nothing is done; the findings are collected;
\* below the threshold they are written as they are; otherwise the prompt is
\* read and the tool invoked.
PostprocessBegin ==
    /\ pp.pc = "start"
    /\ IF ~pp.enabled
       THEN pp' = [pp EXCEPT !.pc = "returned", !.result = Some(Ok(None))]
       ELSE IF ~pp.report.ok
       THEN pp' = [pp EXCEPT !.pc = "returned",
                             !.result = Some(Err(pp.report.value))]
       ELSE IF BelowThreshold(Len(pp.report.value), pp.min_findings)
       THEN \E write_ok \in BOOLEAN :
              pp' = IF write_ok
                    THEN [pp EXCEPT !.pc = "returned",
                            !.written = Some(Aggregated(pp.report.value)),
                            !.result = Some(Ok(Some(Aggregated(pp.report.value))))]
                    ELSE [pp EXCEPT !.pc = "returned",
                            !.result = Some(Err(WriteErrorText))]
       ELSE IF ~pp.prompt_ok
       THEN pp' = [pp EXCEPT !.pc = "returned",
                             !.result = Some(Err(PromptErrorText))]
       ELSE pp' = [pp EXCEPT !.pc = "calling", !.calls = @ + 1]
    /\ UNCHANGED postVars

\* mod.rs 170-196: the tool returns; its error or an unreadable output ends
\* the step, otherwise the reduction is written.
PostprocessReturn ==
    /\ pp.pc = "calling"
    /\ \/ \E e \in ProviderErrors :
            pp' = [pp EXCEPT !.pc = "returned",
                             !.result = Some(Err(ProviderErrorText(e)))]
       \/ \E o \in ReducedOutputs, write_ok \in BOOLEAN :
            pp' = IF o = None
                  THEN [pp EXCEPT !.pc = "returned",
                                  !.result = Some(Err(ReducedParseText))]
                  ELSE IF write_ok
                  THEN [pp EXCEPT
                          !.pc = "returned",
                          !.written = Some(Reduced(pp.report.value, Unwrap(o))),
                          !.result = Some(Ok(Some(Reduced(pp.report.value,
                                                          Unwrap(o)))))]
                  ELSE [pp EXCEPT !.pc = "returned",
                                  !.result = Some(Err(WriteErrorText))]
    /\ UNCHANGED postVars

NextPost ==
    \/ PostprocessBegin
    \/ PostprocessReturn

SpecPost == InitPost /\ [][NextPost]_vars

\* ============================================================= properties
Running == {r \in Reviewers : task[r].pc \in {"spawned", "call", "backoff"}}
InFlight == {r \in Reviewers : task[r].inflight # {}}
RunReturned == orch.pc \in {"returned", "done"}
ResultsOf(r) == {i \in 1..Len(orch.results) : orch.results[i].reviewer_id = r}

\* C1: at every instant the units launched and not yet finished are at most
\* config.concurrency, each of them holds one permit of the pool from its
\* launch to the end of its task (so the free permits and the running units
\* add up to the pool), and at most that many provider calls are in flight.
C1_PermitBound ==
    /\ Cardinality(Running) <= cfg.concurrency
    /\ Cardinality(InFlight) <= cfg.concurrency
    /\ orch.pc \notin {"init", "config_error"} =>
         permits + Cardinality(Running) = cfg.concurrency

\* C1 witness: the pool is exhausted by a unit that waits in a backoff of its
\* second chunk while the launch loop still has a reviewer to launch.
C1_Witness ==
    /\ orch.pc = "launch"
    /\ permits = 0
    /\ \E r \in Reviewers : task[r].pc = "backoff" /\ task[r].chunk_idx = 1

\* C2: within one unit at most one provider call is in flight, it is the call
\* of the unit's current chunk, and a step that moves the unit to another
\* chunk moves it to the next one, after the call of the current chunk has
\* returned for good (a success, or a failure counted after the retries).
C2_ChunksSequential ==
    /\ [](\A r \in Reviewers :
            /\ Cardinality(task[r].inflight) <= 1
            /\ task[r].inflight \subseteq {task[r].chunk_idx}
            /\ task[r].inflight # {} => task[r].pc = "call")
    /\ [][\A r \in Reviewers :
            (task'[r].pc = "call" /\ task[r].pc \in {"call", "backoff"}
             /\ task'[r].chunk_idx # task[r].chunk_idx)
            => /\ task[r].pc = "call"
               /\ task'[r].chunk_idx = task[r].chunk_idx + 1
               /\ task'[r].attempts = 1
               /\ task'[r].chunk_successes + task'[r].chunk_failures
                    = task[r].chunk_successes + task[r].chunk_failures + 1
               /\ (task'[r].chunk_successes = task[r].chunk_successes
                   => task[r].attempts >= cfg.retry.max_attempts)]_vars

\* C2 witness: the second attempt of a unit's second chunk is in flight, after
\* its first chunk succeeded.
C2_Witness ==
    \E r \in Reviewers :
        /\ task[r].inflight = {1}
        /\ task[r].chunk_successes = 1
        /\ task[r].attempts = 2

\* C3: once a non-final chunk of a multi-chunk unit has failed after its
\* retries, the unit makes no further provider call, nobody has a call in
\* flight under its session id, and the unit ends Failed.
C3_BrokenChainAbandoned ==
    /\ [](\A r \in Reviewers : task[r].chain_broken =>
            /\ task[r].pc \in {"finished", "joined"}
            /\ task[r].inflight = {}
            /\ task[r].pc = "finished" =>
                 Unwrap(task[r].result).status.kind = "Failed"
            /\ \A q \in Reviewers :
                 (task[q].inflight # {} /\ task[q].session_info # None
                  /\ task[r].session_id # None)
                 => Unwrap(task[q].session_info).session_id # task[r].session_id)
    /\ [][\A r \in Reviewers :
            (task[r].chain_broken /\ task[r].pc = "finished"
             /\ task'[r].pc = "joined")
            => /\ Len(orch'.results) = Len(orch.results) + 1
               /\ orch'.results[Len(orch'.results)].reviewer_id = r
               /\ orch'.results[Len(orch'.results)].status.kind = "Failed"]_vars

\* C3 witness: a unit of more than two chunks that was abandoned at its
\* second chunk, after the first one succeeded.
C3_Witness ==
    \E r \in Reviewers :
        /\ task[r].chain_broken
        /\ task[r].pc = "finished"
        /\ task[r].chunk_successes = 1
        /\ Len(task[r].chunks) >= 3

\* C4: the report run returns holds exactly one result for every enabled
\* reviewer that matched the filters, however its unit ended, and run does
\* not fail once a reviewer matched.
C4_OneResultPerMatchedReviewer ==
    /\ RunReturned =>
         /\ Len(orch.results) = Len(orch.matched)
         /\ \A r \in Reviewers :
              Cardinality(ResultsOf(r)) = IF r \in Range(orch.matched) THEN 1 ELSE 0
    /\ orch.pc = "no_reviewers_matched" => all_reviewers(cfg, options) = <<>>

\* C5: an operation that always fails is never invoked more than
\* max_attempts times, and retry_with_backoff ends by returning, after
\* exactly max_attempts invocations, the error of the last one.
C5_AlwaysFailingInvokedMaxAttempts ==
    rt.succeed_at = 0 =>
        /\ rt.invocations <= rt.max_attempts
        /\ rt.pc \in {"returned", "panicked"} =>
             /\ rt.pc = "returned"
             /\ rt.invocations = rt.max_attempts
             /\ rt.result = Some(Err(rt.errors[Len(rt.errors)]))

\* C6: an operation that first succeeds on its k-th invocation, k <=
\* max_attempts, is invoked exactly k times, never again after the success,
\* and retry_with_backoff ends by returning the success value.
C6_ReturnsFirstSuccess ==
    (rt.succeed_at >= 1 /\ rt.succeed_at <= rt.max_attempts) =>
        /\ rt.invocations <= rt.succeed_at
        /\ rt.pc \in {"returned", "panicked"} =>
             /\ rt.pc = "returned"
             /\ rt.invocations = rt.succeed_at
             /\ rt.result = Some(Ok(SuccessValue))

SkippedAsAlreadyRan(r) ==
    \E i \in ResultsOf(r) :
        /\ orch.results[i].status.kind = "Skipped"
        /\ orch.results[i].status.detail = <<"already ran today">>

\* C7: between the split and the end of run, an enabled reviewer that matched
\* the filters has an 'already ran today' result iff force is off and the run
\* state holds an entry of it less than 24 hours old; otherwise it is among
\* the reviewers handed to execution.
C7_SkippedIffRecentAndNotForced ==
    orch.pc \in {"launch", "collect", "returned"} =>
        \A r \in Range(orch.matched) :
            LET recent == /\ state[r] # None
                          /\ clock - Unwrap(state[r]).last_run < 24
            IN /\ SkippedAsAlreadyRan(r) <=> (~options.force /\ recent)
               /\ r \in Range(orch.reviewers) <=> ~SkippedAsAlreadyRan(r)

\* C7 witness: without force, a reviewer whose entry is exactly 24 hours old
\* is handed to execution while another one, run 2 hours ago, is skipped.
C7_Witness ==
    /\ orch.pc = "launch"
    /\ ~options.force
    /\ \E r \in Range(orch.reviewers) :
         state[r] # None /\ clock - Unwrap(state[r]).last_run = 24
    /\ \E r \in Range(orch.matched) :
         /\ SkippedAsAlreadyRan(r)
         /\ clock - Unwrap(state[r]).last_run = 2

CompletedResults(r) ==
    {i \in ResultsOf(r) : orch.results[i].status.kind = "Completed"}

\* C8: after the run state was updated, the entry of a reviewer with a
\* Completed result is the new one (last_run = now, findings_count = the
\* number of its findings) whatever it was before, and every other entry is
\* the one that was loaded.
C8_RecordedIffCompleted ==
    orch.pc = "done" =>
        \A r \in Reviewers :
            IF CompletedResults(r) # {}
            THEN \E i \in CompletedResults(r) :
                    state[r] = Some([last_run |-> clock,
                                     findings_count |->
                                        Len(orch.results[i].findings)])
            ELSE state[r] = orch.loaded[r]

\* C8 witness: a Completed reviewer's earlier entry was replaced and a Failed
\* reviewer's earlier entry was kept.
C8_Witness ==
    /\ orch.pc = "done"
    /\ \E r \in Reviewers :
         /\ CompletedResults(r) # {}
         /\ orch.loaded[r] # None
         /\ state[r] # orch.loaded[r]
    /\ \E r \in Reviewers :
         /\ \E i \in ResultsOf(r) : orch.results[i].status.kind = "Failed"
         /\ orch.loaded[r] # None
         /\ state[r] = orch.loaded[r]

\* C9: a unit that reached the provider ends with a status: Completed iff
\* all of its chunks succeeded, Failed with the text of the last provider
\* error when none succeeded, and Failed with the chunk-count message
\* (failed chunks, of the chunks that ended) when some but not all did.
C9_StatusFromChunkOutcomes ==
    \A r \in Reviewers :
        (task[r].called /\ task[r].pc \in {"finished", "panicked"}) =>
            LET t == task[r]
                status == Unwrap(t.result).status
                n == Len(t.chunks)
                ok == t.chunk_successes
            IN /\ t.pc = "finished"
               /\ status.kind = "Completed" <=> ok = n
               /\ status.kind \in {"Completed", "Failed"}
               /\ ok = 0 =>
                    /\ status.kind = "Failed"
                    /\ t.last_error # None
                    /\ status.detail = Unwrap(t.last_error)
                    /\ \E e \in ProviderErrors :
                         status.detail = ProviderErrorText(e)
               /\ (0 < ok /\ ok < n) =>
                    /\ status.kind = "Failed"
                    /\ t.chunk_failures >= 1
                    /\ status.detail =
                         <<"chunks failed; partial results returned",
                           t.chunk_failures, t.chunk_failures + ok>>

RECURSIVE CompletedOnly(_)
CompletedOnly(results) ==
    IF results = <<>> THEN <<>>
    ELSE IF Head(results).status.kind = "Completed"
    THEN <<Head(results)>> \o CompletedOnly(Tail(results))
    ELSE CompletedOnly(Tail(results))

StatusKindOf(r, kind) ==
    /\ Cardinality(ResultsOf(r)) = 1
    /\ \A i \in ResultsOf(r) : orch.results[i].status.kind = kind

\* The end-to-end scenario: r1 finds no file, every provider call of r2 timed
\* out, r3 returned two findings.
C10_Scenario ==
    /\ orch.matched = <<"r1", "r2", "r3">>
    /\ orch.reviewers = <<"r1", "r2", "r3">>
    /\ world["r1"].found = Some(<<>>)
    /\ task["r2"].called /\ task["r2"].only_timeouts
    /\ \E i \in ResultsOf("r3") : Len(orch.results[i].findings) = 2

\* C10: in the report every Skipped or Failed result has no findings, so the
\* totals are those of the Completed results; and in the end-to-end scenario
\* the report holds exactly three results, Skipped, Failed and Completed,
\* with the totals of the last one.
C10_TotalsFromCompletedOnly ==
    RunReturned =>
        /\ \A i \in 1..Len(orch.results) :
             orch.results[i].status.kind \in {"Skipped", "Failed"}
             => orch.results[i].findings = <<>>
        /\ totals(orch.results) = totals(CompletedOnly(orch.results))
        /\ C10_Scenario =>
             /\ Len(orch.results) = 3
             /\ StatusKindOf("r1", "Skipped")
             /\ StatusKindOf("r2", "Failed")
             /\ StatusKindOf("r3", "Completed")
             /\ totals(orch.results) =
                  totals(SeqFilter(orch.results,
                                   {x \in Range(orch.results) :
                                      x.reviewer_id = "r3"}))

Calling(r) == task[r].pc \in {"call", "backoff"}

\* C11 as stated: whenever a unit of more than one chunk has a chunk at the
\* provider, the call carries a session handle with a session id, with
\* is_resume false for the first chunk and true for every later one.
C11_SessionBeforeFirstChunk ==
    \A r \in Reviewers :
        (Calling(r) /\ Len(task[r].chunks) > 1) =>
            /\ task[r].session_info # None
            /\ Unwrap(task[r].session_info).session_id # None
            /\ Unwrap(task[r].session_info).is_resume = (task[r].chunk_idx > 0)

\* C11 amended: a claude_cli unit of more than one chunk sends every chunk
\* with the session id created before the first one, is_resume false for the
\* first chunk and true for every later one, and the id never changes; a
\* codex_cli unit sends its first chunk without a session handle and a later
\* chunk with the id it holds and is_resume true, or without a handle when it
\* holds none.
C11_SessionHandlePerProvider ==
    /\ [](\A r \in Reviewers :
            (Calling(r) /\ Len(task[r].chunks) > 1) =>
                LET t == task[r]
                IN IF ProviderOf[r] = "claude_cli"
                   THEN /\ t.session_id = Some(<<"uuid", r>>)
                        /\ t.session_info =
                             Some([session_id |-> t.session_id,
                                   is_resume |-> t.chunk_idx > 0])
                   ELSE /\ t.chunk_idx = 0 => t.session_info = None
                        /\ t.chunk_idx > 0 =>
                             t.session_info =
                               IF t.session_id = None THEN None
                               ELSE Some([session_id |-> t.session_id,
                                          is_resume |-> TRUE]))
    /\ [][\A r \in Reviewers :
            (Calling(r) /\ task'[r].pc \in {"call", "backoff"}
             /\ ProviderOf[r] = "claude_cli")
            => task'[r].session_id = task[r].session_id]_vars

\* C11 witness: the third chunk of a claude_cli unit is at the provider as a
\* resume of the created session, and a codex_cli unit's second chunk is sent
\* without any session handle.
C11_Witness ==
    /\ task["r1"].pc = "call" /\ task["r1"].chunk_idx = 2
    /\ Unwrap(task["r1"].session_info).is_resume
    /\ task["r2"].pc = "call" /\ task["r2"].chunk_idx = 1
    /\ task["r2"].session_info = None

\* C12: when a chunk succeeded while the unit held no session id and its
\* output carries one, the next chunk is sent with exactly that id and
\* is_resume true; every later chunk of a unit that holds an id is sent with
\* the id it holds and is_resume true; an id once held is never replaced.
C12_AdoptedSessionKept ==
    /\ [](\A r \in Reviewers :
            (Calling(r) /\ task[r].chunk_idx > 0 /\ task[r].session_id # None)
            => task[r].session_info =
                 Some([session_id |-> task[r].session_id, is_resume |-> TRUE]))
    /\ [][\A r \in Reviewers :
            /\ (task[r].pc = "call" /\ task'[r].pc = "call"
                /\ task'[r].chunk_idx = task[r].chunk_idx + 1
                /\ task[r].session_id = None
                /\ task'[r].output_session_id # None)
               => task'[r].session_info =
                    Some([session_id |-> task'[r].output_session_id,
                          is_resume |-> TRUE])
            /\ (Calling(r) /\ task[r].session_id # None
                /\ task'[r].pc \in {"call", "backoff", "finished"})
               => task'[r].session_id = task[r].session_id]_vars

\* C12 witness: the third chunk of a codex_cli unit is sent as a resume of the
\* thread id found in the output of its first chunk.
C12_Witness ==
    /\ task["r2"].pc = "call" /\ task["r2"].chunk_idx = 2
    /\ task["r2"].session_info =
         Some([session_id |-> Some(<<"thread", "r2">>), is_resume |-> TRUE])

\* The final chunk of r succeeded with an output from which neither a JSON
\* document nor a table row can be recovered.
NothingRecovered(r) ==
    /\ task[r].output_stdout # None
    /\ Unwrap(task[r].output_stdout).json = None
    /\ Unwrap(task[r].output_stdout).table = <<>>

\* C13 as stated: a unit whose final output yields no structured data ends
\* with a failure status and zero findings.
C13_ParseFailureFailsUnit ==
    \A r \in Reviewers :
        (task[r].pc = "finished" /\ NothingRecovered(r)) =>
            /\ Unwrap(task[r].result).status.kind = "Failed"
            /\ Unwrap(task[r].result).findings = <<>>

\* C13 amended: a unit whose final output yields no structured data ends
\* Completed with zero findings and is recorded in the run state as run with
\* 0 findings; the provider is not invoked again after that output.
C13_ParseFailureCompletesEmpty ==
    /\ [](\A r \in Reviewers :
            /\ (task[r].pc = "finished" /\ NothingRecovered(r)) =>
                 /\ Unwrap(task[r].result).status = Completed
                 /\ Unwrap(task[r].result).findings = <<>>
            /\ (orch.pc = "done" /\ NothingRecovered(r)) =>
                 state[r] = Some([last_run |-> clock, findings_count |-> 0]))
    /\ [][\A r \in Reviewers :
            /\ (task[r].pc = "call" /\ task'[r].output_stdout # None)
               => task'[r].pc = "finished"
            /\ task[r].pc \in {"finished", "joined"}
               => task'[r].pc \in {"finished", "joined"}]_vars

\* C13 witness: the run ended with a unit of three chunks whose final output
\* was unparseable.
C13_Witness ==
    /\ orch.pc = "done"
    /\ \E r \in Reviewers :
         /\ NothingRecovered(r)
         /\ \E i \in ResultsOf(r) : orch.results[i].files_scanned = MaxFiles

NoneEnabled == \A r \in Reviewers : ~cfg.enabled[r]

NoneMatched ==
    \A r \in Reviewers :
        \/ ~cfg.enabled[r]
        \/ options.reviewer_filter # None
           /\ r \notin Unwrap(options.reviewer_filter)
        \/ options.scope_filter # None
           /\ ScopesOf[r] \cap Unwrap(options.scope_filter) = {}

\* C14: when no reviewer is enabled, or no enabled reviewer passes the
\* reviewer and scope filters, the run, once started, has ended with an error
\* (the configuration error in the first case, 'no reviewers matched' in the
\* second), no task was ever spawned, no provider call was made and no result
\* exists.
C14_AbortsBeforeAnyCall ==
    (orch.pc # "init" /\ (NoneEnabled \/ NoneMatched)) =>
        /\ orch.pc = IF NoneEnabled THEN "config_error"
                     ELSE "no_reviewers_matched"
        /\ orch.results = <<>>
        /\ \A r \in Reviewers : task[r] = IdleTask
        /\ state = disk

\* C14 witness: reviewers are enabled, but the reviewer filter and the scope
\* filter together leave none, and the run ended with the error.
C14_Witness ==
    /\ orch.pc = "no_reviewers_matched"
    /\ cfg.enabled["r1"] /\ cfg.enabled["r3"]
    /\ options.reviewer_filter # None
    /\ options.scope_filter # None

Started(r) == task[r].pc \in {"spawned", "call", "backoff"}

EndedInFailure(t) ==
    \/ t.pc = "panicked"
    \/ t.pc = "finished" /\ Unwrap(t.result).status.kind = "Failed"

\* C15: a launched unit can always take its own next step whatever the other
\* units do; the step in which a unit ends in a failure changes no other
\* unit; a unit's task is changed only by its own steps; and the result a
\* unit that reached the provider returns is made of its own chunk outcomes
\* only: Completed iff none of its chunks failed, the findings recovered from
\* its own final output, the number of its own files.
C15_UnitsIndependent ==
    /\ [](\A r \in Reviewers :
            /\ Started(r) =>
                 ENABLED (ExecBegin(r) \/ CallReturn(r) \/ BackoffDone(r))
            /\ (task[r].pc = "finished" /\ task[r].called) =>
                 LET t == task[r]
                     res == Unwrap(t.result)
                     out == Unwrap(t.output_stdout)
                 IN /\ res.reviewer_id = r
                    /\ res.status.kind = "Completed" <=> t.chunk_failures = 0
                    /\ res.files_scanned = Len(Unwrap(world[r].found))
                    /\ res.findings =
                         IF t.output_stdout = None THEN <<>>
                         ELSE IF out.json # None THEN Unwrap(out.json)
                         ELSE out.table)
    /\ [][\A q \in Reviewers :
            /\ (Started(q) /\ EndedInFailure(task'[q])) =>
                 /\ \A r \in Reviewers \ {q} : task'[r] = task[r]
                 /\ orch' = orch
            /\ (Started(q) /\ task'[q] # task[q]) =>
                 (ExecBegin(q) \/ CallReturn(q) \/ BackoffDone(q))]_vars

\* C15 witness: one unit ended in a failure after nothing but timeouts, and
\* another one ran its chain of three chunks and is Completed with its two
\* findings.
C15_Witness ==
    \E q, r \in Reviewers :
        /\ task[q].called /\ task[q].only_timeouts
        /\ EndedInFailure(task[q])
        /\ task[r].pc = "finished"
        /\ Len(task[r].chunks) = MaxFiles
        /\ Unwrap(task[r].result).status = Completed
        /\ Unwrap(task[r].result).findings = <<"p0", "p1">>

\* ---------------------------------------------- properties of the plan flow
PerspectiveDone(p) == pl.unit[p].result # None

FailedInCall(p) ==
    /\ PerspectiveDone(p)
    /\ \E e \in ProviderErrors :
         Unwrap(pl.unit[p].result).status = Failed(ProviderErrorText(e))

\* C16: a planning perspective whose provider calls fail is recorded as
\* Failed only after retry.max_attempts calls, as the retry executor makes
\* them.
C16_PerspectiveCallsRetried ==
    \A p \in Perspectives :
      FailedInCall(p) => pl.unit[p].calls = pl.config.retry.max_attempts

PlanEnded == pl.pc \in {"error", "fragments_saved", "cancelled", "saved"}

CompletedPerspectives ==
    {p \in Perspectives :
       \E i \in 1..Len(pl.results) :
         pl.results[i].perspective_id = p /\ pl.results[i].status = Completed}

CallOrParseFailed(p) ==
    /\ pl.unit[p].outcome # None
    /\ LET result == Unwrap(pl.unit[p].outcome)
       IN ~result.ok \/ ~parse_plan_fragment(result.value, p).ok

C18_RevisionRetriedUntilExhausted ==
    /\ [](/\ pl.revise_calls <= MAX_REVISION_RETRIES + 1
          /\ pl.pc = "revise_failed" =>
               pl.revise_calls = MAX_REVISION_RETRIES + 1)
    /\ [][/\ pl.reduction # None => pl'.reduction = pl.reduction
          /\ (pl.pc = "revise_called" /\ pl'.pc = "approval") =>
               \E o \in RevisionStdouts :
                 LET revised == parse_revision_yaml(o, Unwrap(pl.reduction))
                 IN revised.ok /\ pl'.plan = Some(revised.value)
          /\ (pl.pc = "revise_failed" /\ pl'.pc = "approval") =>
               pl'.plan = pl.reduction]_vars

RevisionReturned == pl.pc = "revise_called" /\ pl'.pc = "approval"

\* C19: in a plan that revise_plan returns, a task whose title is the title
\* of an original task has the id of the first original task with that
\* title, so a revision that keeps every title keeps the ids; a task whose
\* title no original task has gets impl-NNN with NNN its 1-based position.
C19_RevisionKeepsIdsByTitle ==
    [][RevisionReturned =>
         LET original == Unwrap(pl.reduction).tasks
             revised == Unwrap(pl'.plan).tasks
             Matches(i) == {j \in 1..Len(original) :
                              original[j].title = revised[i].title}
         IN \A i \in 1..Len(revised) :
              IF Matches(i) # {}
              THEN revised[i].id =
                     original[CHOOSE j \in Matches(i) :
                                \A k \in Matches(i) : j <= k].id
              ELSE revised[i].id = ImplId(i)]_vars

\* C19 witness: a returned revision in which B, moved to the first position,
\* keeps impl-002 and the new task C gets an id from its position.
C19_Witness ==
    /\ pl.pc = "approval"
    /\ pl.plan # None /\ pl.plan # pl.reduction
    /\ Unwrap(pl.reduction).tasks = <<TaskA, TaskB>>
    /\ Len(Unwrap(pl.plan).tasks) = 2
    /\ Unwrap(pl.plan).tasks[1].title = Text("B")
    /\ Unwrap(pl.plan).tasks[1].id = ImplId(2)
    /\ Unwrap(pl.plan).tasks[1].description = "d2"
    /\ Unwrap(pl.plan).tasks[2].title = Text("C")
    /\ Unwrap(pl.plan).tasks[2].id = ImplId(2)

NoDanglingDependency(plan) ==
    \A i \in 1..Len(plan.tasks) :
      \A k \in 1..Len(plan.tasks[i].depends_on) :
        \E j \in 1..Len(plan.tasks) :
          plan.tasks[j].id = plan.tasks[i].depends_on[k]

\* C20: in the plan that reduction produced and in the plan that revision
\* produced, every depends_on entry of every task is the id of a task of
\* that plan.
C20_DependsOnNamesPlanTasks ==
    /\ pl.reduction # None => NoDanglingDependency(Unwrap(pl.reduction))
    /\ pl.plan # None => NoDanglingDependency(Unwrap(pl.plan))

\* C21: in a plan command run with --auto-select in which the selection was
\* made, generalist is among the perspectives that were launched, whatever
\* the selection named.
C21_GeneralistAlwaysExecuted ==
    (pl.args.auto_select /\ pl.perspective_filter # None /\ PlanEnded) =>
        pl.unit["generalist"].pc # "idle"

\* ------------------------------------------ properties of Runner.execute
\* C22: an execute call spawns at most one process; a timeout of the wait
\* gives Timeout(timeout), a failure to create the file, to spawn, to write
\* or to wait gives Io, a process that ended unsuccessfully gives
\* NonZeroExit with its code and stderr, and a ProviderOutput is returned
\* only for a spawned process that ended with exit code 0.
C22_ExecuteOneProcessNoRetry ==
    /\ rn.spawned <= 1
    /\ rn.pc = "returned" =>
         LET result == Unwrap(rn.result)
             event == Unwrap(rn.event)
         IN /\ event = "timed_out" => result = Err(TimeoutError(rn.timeout))
            /\ event \in {"tempfile_failed", "spawn_failed", "stdin_failed",
                          "wait_failed"} => result = Err(IoError)
            /\ event \in {"tempfile_failed", "spawn_failed"} => rn.spawned = 0
            /\ event = "exited" =>
                 LET out == Unwrap(rn.exit)
                 IN IF out.code = Some(0)
                    THEN /\ result.ok
                         /\ result.value.exit_code = 0
                         /\ result.value.stderr = out.stderr
                    ELSE result =
                           Err(NonZeroExit(IF out.code = None THEN -1
                                           ELSE Unwrap(out.code), out.stderr))
            /\ result.ok =>
                 /\ event = "exited"
                 /\ Unwrap(rn.exit).code = Some(0)
                 /\ rn.spawned = 1

\* C22 witness: a codex call whose process was ended by a signal returned
\* NonZeroExit with code -1 and the process's stderr.
C22_Witness ==
    /\ rn.pc = "returned"
    /\ rn.provider = "codex_cli"
    /\ rn.spawned = 1
    /\ rn.result = Some(Err(NonZeroExit(-1, "err")))

\* ------------------------------------------ properties of pure functions
FnReturned(op) == fn.pc = "returned" /\ fn.op = op

\* C23: chunk_files(files, m) with 0 < m < n = |files| returns ceil(n/m)
\* groups whose concatenation is files, each but the last of size m and the
\* last of size n mod m, or m when m divides n; otherwise it returns the one
\* group of all files.
C23_ChunkFilesGroups ==
    FnReturned("chunk_files") =>
        LET files == fn.input.files
            m == fn.input.max_size
            n == Len(files)
            groups == Unwrap(fn.output)
        IN IF 0 < m /\ m < n
           THEN /\ Len(groups) = (n + m - 1) \div m
                /\ SeqConcat(groups) = files
                /\ \A i \in 1..(Len(groups) - 1) : Len(groups[i]) = m
                /\ Len(groups[Len(groups)]) = IF n % m = 0 THEN m ELSE n % m
           ELSE groups = <<files>>

\* C23 witness: seven files in groups of at most three.
C23_Witness ==
    /\ FnReturned("chunk_files")
    /\ Len(fn.input.files) = 7 /\ fn.input.max_size = 3
    /\ Len(Unwrap(fn.output)) = 3
    /\ Len(Unwrap(fn.output)[3]) = 1

SameWords(sn1, sn2) ==
    split_whitespace(IF sn1 = None THEN <<>> ELSE Unwrap(sn1))
      = split_whitespace(IF sn2 = None THEN <<>> ELSE Unwrap(sn2))

\* C24: two fingerprint calls agree when they are given the same reviewer
\* id, file, line and type and snippets that differ only in their runs of
\* whitespace, whatever the other fields are; they disagree when they are
\* given the same finding and different reviewer ids.
C24_FingerprintDeterminedByKey ==
    FnReturned("fingerprint") =>
        LET a == fn.input[1]
            b == fn.input[2]
            fp == Unwrap(fn.output)
        IN /\ (/\ a.reviewer_id = b.reviewer_id
               /\ a.finding.file = b.finding.file
               /\ a.finding.line = b.finding.line
               /\ a.finding.finding_type = b.finding.finding_type
               /\ SameWords(a.finding.snippet, b.finding.snippet))
              => fp[1] = fp[2]
           /\ (a.finding = b.finding /\ a.reviewer_id # b.reviewer_id)
              => fp[1] # fp[2]

\* C24 witness: one reviewer's two findings whose snippets differ in
\* whitespace and whose titles differ have one fingerprint.
C24_Witness ==
    /\ FnReturned("fingerprint")
    /\ fn.input[1].reviewer_id = fn.input[2].reviewer_id
    /\ fn.input[1].finding.snippet = Some(<<"x", " ", "y">>)
    /\ fn.input[2].finding.snippet = Some(<<" ", "x", "\n", "\t", "y", " ">>)
    /\ fn.input[1].finding.title # fn.input[2].finding.title
    /\ Unwrap(fn.output)[1] = Unwrap(fn.output)[2]

IsFindingsDocument(s) == parse_findings_json(s) # None

HoldsFindingsInResult(s) ==
    /\ AsClaudeOutput(s) # None
    /\ parse_findings_json(Unwrap(AsClaudeOutput(s))) # None

DataRows(raw) ==
    SeqFilter(raw, {row \in Range(raw) :
                      MatchesTableRe(row) /\ to_lowercase(row.file) # "file"})

\* C26: try_parse_markdown_table yields one finding per matching data row,
\* in row order; the finding of the n-th data row has the id
\* {REVIEWER_ID}-{n}, the row's file and the priority its severity cell
\* maps to.
C26_OneFindingPerDataRow ==
    FnReturned("try_parse_markdown_table") =>
        LET data == DataRows(fn.input.raw)
            findings == IF Unwrap(fn.output) = None THEN <<>>
                        ELSE Unwrap(Unwrap(fn.output))
        IN /\ Len(findings) = Len(data)
           /\ \A n \in 1..Len(findings) :
                /\ findings[n].id = <<"SEC", n>>
                /\ findings[n].file = data[n].file
                /\ findings[n].priority =
                     CASE data[n].severity \in {"p0", "critical", "high"} -> "p0"
                       [] data[n].severity \in {"p1", "medium"} -> "p1"
                       [] data[n].severity \in {"p2", "low"} -> "p2"

\* ---------------------------------------- properties of the retry delay
RECURSIVE Pow2(_)
Pow2(k) == IF k = 0 THEN 1 ELSE 2 * Pow2(k - 1)

\* C27: the delay slept after the k-th failed attempt is B * 2^k + j for a
\* jitter 0 <= j <= B, with B the backoff base.
C27_DelayIsBaseTimesTwoToK ==
    rt.pc = "sleep" =>
        \E j \in 0..rt.backoff_base_ms :
          rt.delay = rt.backoff_base_ms * Pow2(rt.attempts) + j

\* ------------------------------------ properties of the run's termination
NothingLaunched ==
    /\ orch.idx = 0
    /\ orch.futures = {}
    /\ \A r \in Reviewers : task[r].pc = "idle"

\* C28: with every provider call returning and fair scheduling, a run that
\* has units to launch returns its report when concurrency >= 1, and with
\* concurrency = 0 it launches no unit and never returns.
C28_RunReturnsIffConcurrencyPositive ==
    /\ (orch.pc = "launch" /\ cfg.concurrency >= 1) ~> RunReturned
    /\ [](orch.pc = "launch" /\ cfg.concurrency = 0
            => [](orch.pc = "launch" /\ NothingLaunched))

\* The run returned although it had more units to launch than permits.
C28_Witness ==
    /\ RunReturned
    /\ cfg.concurrency >= 1
    /\ Len(orch.reviewers) > cfg.concurrency
    /\ Len(orch.results) = Len(orch.reviewers)

\* ------------------------------------------ properties of the run state
UnitRunning(r) == task[r].pc \in {"spawned", "call", "backoff"}

\* C29: the run state and the state file change at most once per run, on the
\* step that follows the return of Orchestrator.run, when no unit is running.
C29_StateWrittenOnceAfterRun ==
    [][(state' # state \/ disk' # disk) =>
         /\ orch.pc = "returned"
         /\ orch'.pc = "done"
         /\ orch.futures = {}
         /\ \A r \in Reviewers : ~UnitRunning(r)]_vars

\* A run of two units ended with its results recorded and saved.
C29_Witness ==
    /\ orch.pc = "done"
    /\ Len(orch.reviewers) >= 2
    /\ state # orch.loaded
    /\ disk = state

\* --------------------------------------- properties of a unit's findings
\* C30: the findings a unit returns are the parse of the successful output of
\* its final chunk, and are empty when that chunk was not sent or did not
\* succeed; until then the unit holds no finding.
C30_FindingsFromFinalChunkOnly ==
    \A r \in Reviewers :
        /\ task[r].pc = "finished" =>
             Unwrap(task[r].result).findings =
               IF task[r].output_stdout = None THEN <<>>
               ELSE parse_findings(Unwrap(task[r].output_stdout))
        /\ task[r].pc \in {"call", "backoff"} => task[r].all_findings = <<>>

\* A unit of three chunks returned the two findings of its final output, and
\* another unit whose chain was broken returned none.
C30_Witness ==
    \E r, q \in Reviewers :
        /\ task[r].pc = "finished" /\ Len(task[r].chunks) = 3
        /\ task[r].output_stdout # None
        /\ Unwrap(task[r].result).findings = <<"p0", "p1">>
        /\ task[q].pc = "finished" /\ task[q].chain_broken
        /\ Unwrap(task[q].result).findings = <<>>

\* ------------------------------------------- properties of skipped units
\* C31: a unit with a Skipped status had no provider call made for it: a unit
\* skipped as already run was never spawned, and a unit skipped for want of
\* files ended before its first chunk was sent.
C31_SkippedNeverCalled ==
    /\ \A r \in Reviewers :
         /\ (task[r].pc = "finished"
             /\ Unwrap(task[r].result).status.kind = "Skipped") =>
               /\ ~task[r].called
               /\ task[r].inflight = {}
         /\ SkippedAsAlreadyRan(r) => task[r] = IdleTask
    /\ \A i \in 1..Len(orch.results) :
         orch.results[i].status.kind = "Skipped" =>
             ~task[orch.results[i].reviewer_id].called

\* The run ended with one unit skipped for want of files and another one
\* that was sent to the provider.
C31_Witness ==
    /\ orch.pc = "done"
    /\ \E i, j \in 1..Len(orch.results) :
         /\ orch.results[i].status = Skipped("no matching files")
         /\ orch.results[j].status.kind = "Completed"
         /\ task[orch.results[j].reviewer_id].called

\* ------------------------------------ properties of a perspective's call
PromptAvailable(p) ==
    \/ pl.files.prompt[p] = "file"
    \/ pl.files.prompt[p] = "missing" /\ get_embedded_prompt(p) # None

InitCli == Init \/ InitPlan

NextCli ==
    \/ pl = IdlePlan /\ Next
    \/ pl # IdlePlan /\ NextPlan

SpecCli == InitCli /\ [][NextCli]_vars

\* ------------------------------------------- properties of the launch loop
PositionIn(seq, x) == CHOOSE i \in 1..Len(seq) : seq[i] = x

InOrderOf(seq, order) ==
    \A i, j \in 1..Len(seq) :
        i < j => PositionIn(order, seq[i]) < PositionIn(order, seq[j])

\* The pacing sleeps made when idx units are launched: one before each launch
\* but the first, and the one of the launch to come when it is over.
PacingSleeps(idx, slept, launch_delay_ms) ==
    (IF idx > 0 /\ launch_delay_ms > 0 THEN idx - 1 ELSE 0)
    + (IF slept THEN 1 ELSE 0)

\* C33: in the review run and in the planning run, the pacing sleeps made are
\* one per launched unit but the first when launch_delay_ms > 0 (none
\* otherwise); units are launched one per step, in configuration order, a
\* launch after the first only once its sleep is over; and a pacing sleep is a
\* step of the launch loop that changes no unit, so none falls between the
\* chunks of a unit.
C33_OnePacingDelayPerLaunch ==
    /\ [](/\ orch.delays
               = PacingSleeps(orch.idx, orch.slept, cfg.launch_delay_ms)
          /\ InOrderOf(orch.reviewers, ReviewerOrder)
          /\ \A i \in 1..Len(orch.reviewers) :
               task[orch.reviewers[i]].pc # "idle" <=> i <= orch.idx
          /\ pl.delays
               = PacingSleeps(pl.idx, pl.slept, pl.config.launch_delay_ms)
          /\ InOrderOf(pl.selected, PerspectiveOrder)
          /\ \A i \in 1..Len(pl.selected) :
               pl.unit[pl.selected[i]].pc # "idle" <=> i <= pl.idx)
    /\ [][/\ orch'.delays # orch.delays =>
               /\ orch'.delays = orch.delays + 1
               /\ orch.pc = "launch" /\ orch.idx > 0 /\ orch'.idx = orch.idx
               /\ task' = task
          /\ orch'.idx # orch.idx =>
               /\ orch'.idx = orch.idx + 1
               /\ (orch.idx > 0 /\ cfg.launch_delay_ms > 0) => orch.slept
               /\ task' = [task EXCEPT ![orch.reviewers[orch'.idx]].pc =
                                          "spawned"]
          /\ pl'.delays # pl.delays =>
               /\ pl'.delays = pl.delays + 1
               /\ pl.pc = "launching" /\ pl.idx > 0 /\ pl'.idx = pl.idx
               /\ pl'.unit = pl.unit
          /\ pl'.idx # pl.idx =>
               /\ pl'.idx = pl.idx + 1
               /\ (pl.idx > 0 /\ pl.config.launch_delay_ms > 0) => pl.slept
               /\ pl'.unit = [pl.unit EXCEPT ![pl.selected[pl'.idx]].pc =
                                                "spawned"]]_vars

\* Three units were launched with a launch delay, two pacing sleeps were
\* made, and a unit of three chunks has been sent its last chunk.
C33_Witness ==
    /\ cfg.launch_delay_ms > 0
    /\ orch.idx = 3 /\ orch.delays = 2
    /\ \E r \in Reviewers : task[r].pc = "call" /\ task[r].chunk_idx = 2

\* --------------------------------------- properties of the auto-selection
ExecutedPerspectives == {p \in Perspectives : pl.unit[p].pc # "idle"}

\* C34: with auto-selection, the perspectives executed are never more than
\* max_perspectives, generalist counted in.
C34_AutoSelectRespectsMax ==
    pl.args.auto_select =>
        Cardinality(ExecutedPerspectives) <= pl.args.max_perspectives

\* ------------------------------ properties of the planner's list parsing
KeptElements(member) ==
    IF member = None THEN <<>> ELSE SelectSeq(Unwrap(member), WellFormed)

\* C35: a parsed fragment or unified plan holds, for each of its lists, the
\* well-formed elements of the document's list in their order, malformed
\* elements dropped; the parse itself never fails on a JSON object.
C35_MalformedElementsDropped ==
    /\ FnReturned("try_parse_fragment") =>
         /\ Unwrap(fn.output) # None
         /\ Unwrap(Unwrap(fn.output)).tasks = KeptElements(fn.input.tasks)
         /\ Unwrap(Unwrap(fn.output)).concerns = KeptElements(fn.input.concerns)
         /\ Unwrap(Unwrap(fn.output)).questions
              = KeptElements(fn.input.questions)
    /\ FnReturned("try_parse_plan") =>
         /\ Unwrap(fn.output) # None
         /\ Unwrap(Unwrap(fn.output)).tasks = KeptElements(fn.input.tasks)
         /\ Unwrap(Unwrap(fn.output)).questions
              = KeptElements(fn.input.questions)
         /\ Unwrap(Unwrap(fn.output)).risks = KeptElements(fn.input.risks)
         /\ Unwrap(Unwrap(fn.output)).deferred
              = KeptElements(fn.input.deferred)

\* ---------------------------------------- properties of parse_findings
JsonStageParses(raw) == try_parse_json(raw.json) # None

\* C36: parse_findings returns the JSON stage's findings whenever that stage
\* parses, be they none; otherwise one finding per matching data row of the
\* table when there is one; otherwise the empty list.
C36_ParseFindingsFallsBack ==
    FnReturned("parse_findings") =>
        LET findings == Unwrap(fn.output)
            data == DataRows(fn.input.table)
        IN IF JsonStageParses(fn.input)
           THEN findings = Unwrap(try_parse_json(fn.input.json))
           ELSE /\ Len(findings) = Len(data)
                /\ \A n \in 1..Len(findings) : findings[n].file = data[n].file

\* ------------------------------------------- properties of the postprocess
PostReturned == pp.pc = "returned"
Collected == pp.report.value

\* C37 as stated: with postprocess enabled the tool is called if and only if
\* the collected findings are at least min_findings; below the threshold no
\* call is made and reduced.json holds each collected finding once, merged
\* from its own fingerprint, with reduced_count = original_count.
C37_ReducerCalledIffThreshold ==
    (PostReturned /\ pp.enabled /\ pp.report.ok) =>
        /\ pp.calls = 1 <=> Len(Collected) >= pp.min_findings
        /\ Len(Collected) < pp.min_findings =>
             /\ pp.calls = 0
             /\ pp.written # None
             /\ Unwrap(pp.written).findings =
                  [i \in 1..Len(Collected) |->
                     ReducedFinding(<<Collected[i].fingerprint>>,
                                    Collected[i].finding)]
             /\ Unwrap(pp.written).reduced_count
                  = Unwrap(pp.written).original_count

\* C37 amended: the tool is called at most once, only when the collected
\* findings are at least min_findings, and then whenever the prompt file can
\* be read; below the threshold no call is made and reduced.json, unless its
\* write fails and the step returns the error, holds each collected finding
\* once, in order, merged from its own fingerprint, with no cluster and
\* reduced_count = original_count = the number collected.
C37_ReducerCalledOnlyAtThreshold ==
    /\ pp.calls <= 1
    /\ pp.calls = 1 =>
         /\ pp.enabled /\ pp.report.ok
         /\ Len(Collected) >= pp.min_findings
    /\ (PostReturned /\ pp.enabled /\ pp.report.ok) =>
         /\ (Len(Collected) >= pp.min_findings /\ pp.prompt_ok) => pp.calls = 1
         /\ Len(Collected) < pp.min_findings =>
              /\ pp.calls = 0
              /\ \/ /\ pp.written = None
                    /\ Unwrap(pp.result) = Err(WriteErrorText)
                 \/ /\ pp.written # None
                    /\ Unwrap(pp.written) = Aggregated(Collected)
                    /\ Unwrap(pp.written).findings =
                         [i \in 1..Len(Collected) |->
                            ReducedFinding(<<Collected[i].fingerprint>>,
                                           Collected[i].finding)]
                    /\ Unwrap(pp.written).reduced_count = Len(Collected)
                    /\ Unwrap(pp.written).original_count = Len(Collected)

\* Two findings were collected under a threshold of three and written as
\* they are, without a call.
C37_Witness ==
    /\ PostReturned /\ pp.enabled /\ pp.report.ok
    /\ Len(Collected) = 2 /\ pp.min_findings = 3
    /\ pp.calls = 0
    /\ pp.written # None
    /\ Unwrap(pp.written).reduced_count = 2

\* ------------------------------------------- properties of the statuses
TimeoutText == ProviderErrorText("Timeout")

\* A chunk of r ended its retries on a provider timeout.
TimedOutAfterRetries(r) == task[r].last_error = Some(TimeoutText)

ReachableStatus(status) == status.kind \in {"Completed", "Skipped", "Failed"}

\* C38 as stated: no result carries TimedOut, and a unit one of whose chunks
\* ended its retries on a timeout is Failed with the timeout error text.
C38_TimeoutIsFailedWithItsText ==
    /\ \A i \in 1..Len(orch.results) : ReachableStatus(orch.results[i].status)
    /\ \A r \in Reviewers :
         task[r].pc = "finished" =>
           /\ ReachableStatus(Unwrap(task[r].result).status)
           /\ TimedOutAfterRetries(r) =>
                Unwrap(task[r].result).status = Failed(TimeoutText)

\* C38 amended: no result carries TimedOut; a unit one of whose chunks ended
\* its retries on a timeout is Failed, with the timeout error text when none
\* of its chunks succeeded and with the count of failed chunks otherwise.
C38_TimeoutIsFailed ==
    /\ \A i \in 1..Len(orch.results) :
         /\ ReachableStatus(orch.results[i].status)
         /\ orch.results[i].status # TimedOut
    /\ \A r \in Reviewers :
         task[r].pc = "finished" =>
           /\ ReachableStatus(Unwrap(task[r].result).status)
           /\ TimedOutAfterRetries(r) =>
                Unwrap(task[r].result).status =
                  IF task[r].chunk_successes = 0 THEN Failed(TimeoutText)
                  ELSE Failed(ChunkCountText(
                                task[r].chunk_failures,
                                task[r].chunk_failures
                                  + task[r].chunk_successes))

\* With two attempts per chunk, one unit ended Failed with the timeout text
\* after nothing but timeouts, and another one ended Failed with the chunk
\* count after its last chunk timed out.
C38_Witness ==
    /\ cfg.retry.max_attempts = 2
    /\ \E r, q \in Reviewers :
         /\ task[r].pc = "finished" /\ TimedOutAfterRetries(r)
         /\ task[r].only_timeouts /\ task[r].called
         /\ Unwrap(task[r].result).status = Failed(TimeoutText)
         /\ task[q].pc = "finished" /\ TimedOutAfterRetries(q)
         /\ task[q].chunk_successes > 0
         /\ Unwrap(task[q].result).status.kind = "Failed"

\* ------------------------------------------ ids of a revised plan
PairwiseDistinctIds(tasks) ==
    \A i, j \in 1..Len(tasks) : i # j => tasks[i].id # tasks[j].id

\* C39: in every plan returned by plan revision the task ids are pairwise
\* distinct: a minted impl-NNN id never equals an id kept from the original
\* plan, and no two revised tasks receive the same id.
C39_RevisedIdsPairwiseDistinct ==
    [][RevisionReturned =>
         PairwiseDistinctIds(Unwrap(pl'.plan).tasks)]_vars

\* ------------------------------------ properties of the retry loop's end
\* C40: for every RetryConfig, backoff_base_ms = 0 included, a failed attempt
\* that is not the last one is followed by a delay and a further attempt:
\* retry_with_backoff ends only by returning the operation's success value
\* or its last error, and the doubled backoff saturates at the word's
\* maximum.
C40_RetryEndsOnlyByReturning ==
    /\ rt.pc \in {"idle", "call", "sleep", "returned"}
    /\ rt.pc = "returned" =>
         \/ rt.result = Some(Ok(SuccessValue))
         \/ /\ rt.errors # <<>>
            /\ rt.result = Some(Err(rt.errors[Len(rt.errors)]))
    /\ rt.backoff_ms <= WordMax
====
